---- MODULE Spec2Model ----
(***************************************************************************)
(* Model of comma-cli's placeholder engine (core/placeholders.ts).         *)
(*                                                                         *)
(* A string is a sequence of one-character strings.  The module-level      *)
(* PLACEHOLDER_REGEX object carries the /g flag, so its lastIndex is       *)
(* program state shared by every function that uses it; it is the          *)
(* variable lastIndex below.  Every exported function is synchronous, so   *)
(* one call is one action.  The remaining variables record the last call:  *)
(* its name, its arguments and its return value.                           *)
(***************************************************************************)
EXTENDS Integers, Sequences, FiniteSets, TLC

(* ---------------------------------------------------------------- bounds *)

\* A template is the concatenation of at most MaxPieces pieces.
MaxPieces == 3

\* A positional argument list has at most MaxArgs arguments.
MaxArgs == 3

(* ------------------------------------------------------------ characters *)

\* [a-zA-Z_] : the characters a placeholder name may start with.
NameStartChars == {"a", "b", "_"}

\* [a-zA-Z0-9_-] : the characters a placeholder name may continue with.
NameChars == NameStartChars \cup {"0", "-"}

\* [{}] : the characters ESCAPED_BRACE_REGEX captures after a backslash.
BraceChars == {"{", "}"}

\* JavaScript's undefined, for an optional string (never a character sequence).
Undefined == <<"undefined">>

(* --------------------------------------------------------------- helpers *)

Min(S) == CHOOSE x \in S : \A y \in S : x <= y

RECURSIVE Flatten(_)
Flatten(ss) == IF ss = <<>> THEN <<>> ELSE Head(ss) \o Flatten(Tail(ss))

SeqsUpTo(S, n) == UNION {[1..k -> S] : k \in 0..n}

(* ---------------------------------------------------------------- inputs *)

Pieces ==
  { <<"\\">>, <<"{">>, <<"}">>, <<":">>,
    <<"{", "a">>,
    <<"{", "a", ":", "}">>, <<"{", "a", ":", "-", "}">>,
    <<"{", "b", "-", "}">> }

Templates == {Flatten(ps) : ps \in SeqsUpTo(Pieces, MaxPieces)}

NoValues == [n \in {} |-> <<>>]

\* The two placeholder names of the templates above, a and b-.
ValueNames == {<<"a">>, <<"b", "-">>}

\* The mappings validatePlaceholderValues is called with.
ValueMaps == UNION {[D -> {<<>>, <<"x">>}] : D \in SUBSET ValueNames}

\* The mappings substitutePlaceholders is called with: a is absent, empty or
\* text that looks like a placeholder; b- is absent or an escaped brace.
SubstituteValues ==
  { [n \in D |-> IF n = <<"a">> THEN va ELSE <<"\\", "}">>] :
      D \in SUBSET ValueNames, va \in {<<>>, <<"{", "b", "-", "}">>} }

ArgStrings == {<<>>, <<"x">>, <<"y">>}

ArgLists == SeqsUpTo(ArgStrings, MaxArgs)

(* ------------------------------------------------------ PLACEHOLDER_REGEX *)

\* The last index of the run [a-zA-Z0-9_-]* that follows the name's first
\* character at i + 1 (the quantifier is greedy and what follows it can
\* start with no name character, so the run is always taken whole).
RECURSIVE NameEnd(_, _)
NameEnd(s, i) ==
  IF i + 1 < Len(s) /\ s[i + 2] \in NameChars THEN NameEnd(s, i + 1) ELSE i + 1

\* \{([a-zA-Z_][a-zA-Z0-9_-]*)(?::([^}]*))?\} at index i of s (1-based): the
\* index of the closing brace, or 0 when the pattern does not match there.
\* A ':' with no '}' after it fails: the optional group then matches empty
\* and the '}' that must follow the name is not there.
BodyEnd(s, i) ==
  IF i < 1 \/ i >= Len(s) \/ s[i] # "{" THEN 0
  ELSE IF s[i + 1] \notin NameStartChars THEN 0
  ELSE LET n == NameEnd(s, i) + 1
       IN  IF n > Len(s) THEN 0
           ELSE IF s[n] = "}" THEN n
           ELSE IF s[n] = ":"
             THEN LET closing == {k \in (n + 1)..Len(s) : s[k] = "}"}
                  IN  IF closing = {} THEN 0 ELSE Min(closing)
           ELSE 0

\* (?<!\\) : the character before index i is not a backslash.
LookBehind(s, i) == ~(i > 1 /\ s[i - 1] = "\\")

\* A regex written without the lookbehind.
MatchEndNoLookBehind(s, i) == BodyEnd(s, i)

\* The index of the closing brace of the match of PLACEHOLDER_REGEX that
\* starts at index i of s, or 0 when the regex does not match there.
MatchEnd(s, i) == IF LookBehind(s, i) THEN BodyEnd(s, i) ELSE 0

\* The match array of the match at i: match[0], match[1] and match[2].
MatchGroups(s, i) ==
  LET e == MatchEnd(s, i)
      n == NameEnd(s, i)
  IN  [ match        |-> SubSeq(s, i, e),
        name         |-> SubSeq(s, i + 1, n),
        defaultValue |-> IF s[n + 1] = ":" THEN SubSeq(s, n + 2, e - 1)
                         ELSE Undefined ]

\* RegExp.prototype.exec on the global regex: the search starts at lastIndex
\* (0-based); a match sets lastIndex to the index after it, a failure (also
\* when lastIndex is past the end) sets lastIndex to 0.
RegExpExec(s, li) ==
  LET starts == {i \in (li + 1)..Len(s) : MatchEnd(s, i) # 0}
      first == Min(starts)
  IN  IF starts = {}
        THEN [found |-> FALSE, index |-> 0, lastIndex |-> 0]
        ELSE [found |-> TRUE, index |-> first, lastIndex |-> MatchEnd(s, first)]

(* ------------------------------------------------------ parsePlaceholders *)

\* The while loop of parsePlaceholders: exec is called on the shared regex
\* and so starts at whatever lastIndex the regex holds when the loop begins.
RECURSIVE ParseLoop(_, _, _, _)
ParseLoop(cmd, li, phs, seen) ==
  LET m == RegExpExec(cmd, li)
  IN  IF ~m.found THEN [ret |-> phs, lastIndex |-> m.lastIndex]
      ELSE LET g == MatchGroups(cmd, m.index)
           IN  IF g.name \in seen
                 THEN ParseLoop(cmd, m.lastIndex, phs, seen)
                 ELSE ParseLoop(cmd, m.lastIndex,
                        Append(phs, [ name         |-> g.name,
                                      defaultValue |-> g.defaultValue,
                                      required     |-> g.defaultValue = Undefined,
                                      match        |-> g.match ]),
                        seen \cup {g.name})

parsePlaceholders(cmd, li) == ParseLoop(cmd, li, <<>>, {})

(* -------------------------------------------------------- hasPlaceholders *)

\* A hasPlaceholders that omits the reset of lastIndex before test().
hasPlaceholdersNoReset(cmd, li) ==
  LET m == RegExpExec(cmd, li)
  IN  [ret |-> m.found, lastIndex |-> m.lastIndex]

\* lastIndex is set to 0, then test() runs one exec and leaves the regex's
\* lastIndex where that exec put it.
hasPlaceholders(cmd, li) ==
  LET m == RegExpExec(cmd, 0)
  IN  [ret |-> m.found, lastIndex |-> m.lastIndex]

(* ------------------------------------------------- substitutePlaceholders *)

HasValue(vals, name) == name \in DOMAIN vals /\ vals[name] # <<>>

\* A replacer that takes any present value, the empty string included.
ReplacerAnyValue(g, vals) ==
  IF g.name \in DOMAIN vals THEN vals[g.name]
  ELSE IF g.defaultValue # Undefined THEN g.defaultValue
  ELSE g.match

\* The callback given to command.replace.
Replacer(g, vals) ==
  IF HasValue(vals, g.name) THEN vals[g.name]
  ELSE IF g.defaultValue # Undefined THEN g.defaultValue
  ELSE g.match

\* String.prototype.replace with the global regex and a callback: the scan
\* starts with lastIndex = 0 and runs over the original string until exec
\* fails; `out` is the text built so far, `returned` the callback's returns
\* and `kept` the number of matches the callback returned unchanged.
RECURSIVE ReplaceLoop(_, _, _, _, _, _)
ReplaceLoop(cmd, li, vals, out, returned, kept) ==
  LET m == RegExpExec(cmd, li)
  IN  IF ~m.found
        THEN [ result    |-> out \o SubSeq(cmd, li + 1, Len(cmd)),
               returned  |-> returned,
               kept      |-> kept,
               lastIndex |-> m.lastIndex ]
        ELSE LET g == MatchGroups(cmd, m.index)
                 r == Replacer(g, vals)
                 last == ~HasValue(vals, g.name) /\ g.defaultValue = Undefined
             IN  ReplaceLoop(cmd, m.lastIndex, vals,
                             out \o SubSeq(cmd, li + 1, m.index - 1) \o r,
                             Append(returned, r),
                             IF last THEN kept + 1 ELSE kept)

\* A replace that, like parsePlaceholders, skips a name it has seen.
RECURSIVE ReplaceFirstLoop(_, _, _, _, _, _, _)
ReplaceFirstLoop(cmd, li, vals, out, returned, kept, seen) ==
  LET m == RegExpExec(cmd, li)
  IN  IF ~m.found
        THEN [ result    |-> out \o SubSeq(cmd, li + 1, Len(cmd)),
               returned  |-> returned,
               kept      |-> kept,
               lastIndex |-> m.lastIndex ]
        ELSE LET g == MatchGroups(cmd, m.index)
                 r == IF g.name \in seen THEN g.match ELSE Replacer(g, vals)
             IN  ReplaceFirstLoop(cmd, m.lastIndex, vals,
                                  out \o SubSeq(cmd, li + 1, m.index - 1) \o r,
                                  Append(returned, r), kept,
                                  seen \cup {g.name})

ReplaceFirstOnly(cmd, vals) == ReplaceFirstLoop(cmd, 0, vals, <<>>, <<>>, 0, {})

\* command.replace(PLACEHOLDER_REGEX, callback)
ReplacePlaceholders(cmd, vals) == ReplaceLoop(cmd, 0, vals, <<>>, <<>>, 0)

\* An unescape whose regex lacks the /g flag: only the first pair is replaced.
UnescapeFirstOnly(s) ==
  LET pairs == {i \in 1..(Len(s) - 1) : s[i] = "\\" /\ s[i + 1] \in BraceChars}
  IN  IF pairs = {} THEN s
      ELSE SubSeq(s, 1, Min(pairs) - 1) \o SubSeq(s, Min(pairs) + 1, Len(s))

\* result.replace(ESCAPED_BRACE_REGEX, "$1"): one left-to-right pass.
RECURSIVE UnescapeBraces(_)
UnescapeBraces(s) ==
  IF Len(s) < 2 THEN s
  ELSE IF s[1] = "\\" /\ s[2] \in BraceChars
    THEN <<s[2]>> \o UnescapeBraces(SubSeq(s, 3, Len(s)))
  ELSE <<s[1]>> \o UnescapeBraces(Tail(s))

substitutePlaceholders(cmd, vals) ==
  LET r == ReplacePlaceholders(cmd, vals)
  IN  [ ret       |-> UnescapeBraces(r.result),
        replaced  |-> r.result,
        returned  |-> r.returned,
        kept      |-> r.kept,
        lastIndex |-> r.lastIndex ]

(* ---------------------------------------------- validatePlaceholderValues *)

\* values[name], undefined when the key is absent.
ValueOf(vals, name) == IF name \in DOMAIN vals THEN vals[name] ELSE Undefined

\* A validation that accepts the empty string as a value.
IsMissingUndefinedOnly(ph, vals) ==
  ph.required /\ ValueOf(vals, ph.name) = Undefined

\* The test of the loop body of validatePlaceholderValues.
IsMissing(ph, vals) ==
  ph.required /\ ValueOf(vals, ph.name) \in {Undefined, <<>>}

RECURSIVE MissingLoop(_, _, _)
MissingLoop(phs, vals, missing) ==
  IF phs = <<>> THEN missing
  ELSE MissingLoop(Tail(phs), vals,
                   IF IsMissing(Head(phs), vals)
                     THEN Append(missing, Head(phs).name) ELSE missing)

validatePlaceholderValues(phs, vals) ==
  LET missing == MissingLoop(phs, vals, <<>>)
  IN  [valid |-> Len(missing) = 0, missing |-> missing]

(* ------------------------------------ buildInitialValues / mapArgsToPlaceholders *)

\* values[name] = v on a plain object.
Assign(vals, name, v) ==
  [n \in DOMAIN vals \cup {name} |-> IF n = name THEN v ELSE vals[n]]

RECURSIVE BuildLoop(_, _)
BuildLoop(phs, vals) ==
  IF phs = <<>> THEN vals
  ELSE BuildLoop(Tail(phs),
                 Assign(vals, Head(phs).name,
                        IF Head(phs).defaultValue # Undefined
                          THEN Head(phs).defaultValue ELSE <<>>))

buildInitialValues(phs) == BuildLoop(phs, NoValues)

\* A binding that, like validation, treats an empty argument as not given.
MapBindSkipEmpty(vals, ph, arg) ==
  IF arg # <<>> THEN Assign(vals, ph.name, arg) ELSE vals

\* The body of the for loop of mapArgsToPlaceholders (both operands are
\* defined for every index below the minimum of the two lengths).
MapBind(vals, ph, arg) == Assign(vals, ph.name, arg)

RECURSIVE MapLoop(_, _, _, _)
MapLoop(phs, args, i, vals) ==
  IF i >= Min({Len(args), Len(phs)}) THEN vals
  ELSE MapLoop(phs, args, i + 1, MapBind(vals, phs[i + 1], args[i + 1]))

mapArgsToPlaceholders(phs, args) == MapLoop(phs, args, 0, buildInitialValues(phs))

(* ----------------------------------------------------------------- state *)

VARIABLES
  lastIndex,     \* PLACEHOLDER_REGEX.lastIndex
  op,            \* the function that has just returned, "none" between calls
  command,       \* its command argument
  values,        \* its values argument
  placeholders,  \* the placeholder list the caller holds
  args,          \* its args argument
  ret,           \* its return value
  replaced,      \* substitutePlaceholders: `result` before the unescape
  returned,      \* substitutePlaceholders: what the callback returned, per match
  kept,          \* substitutePlaceholders: matches the callback returned unchanged
  entryIndex     \* hasPlaceholders, parsePlaceholders: lastIndex on entry

placeholderVars == <<lastIndex, op, command, values, placeholders, args, ret,
                     replaced, returned, kept, entryIndex>>

\* utils/fuzzy.ts: one call of searchCommands or sortCommands.
VARIABLES
  sop,       \* the function that has just returned, "none" between calls
  input,     \* the array the caller passed, as it was before the call
  commands,  \* the same array after the call
  query,     \* searchCommands: its query argument
  matched,   \* searchCommands: results.map((r) => r.item)
  result,    \* the return value
  fresh,     \* the returned array is not the array that was passed
  calls      \* 2 when sortCommands was given what the call before returned

searchVars == <<sop, input, commands, query, matched, result, fresh, calls>>

SearchIdle ==
  /\ sop = "none"
  /\ input = <<>>
  /\ commands = <<>>
  /\ query = <<>>
  /\ matched = <<>>
  /\ result = <<>>
  /\ fresh = TRUE
  /\ calls = 0

\* index.ts: one process that runs a saved command.
VARIABLES
  runOp,           \* the handler main called, "none" before the call
  saved,           \* the template getCommand found, NotFound when it found none
  runArgs,         \* ParsedArgs.args
  raw,             \* handleExec: its raw parameter
  hasIntegration,  \* handleRun: isShellIntegrationInstalled(...)
  emitted,         \* what console.log printed: the format and the command text
  exitCode,        \* the argument of process.exit, 0 when the handler returns
  usageRecorded    \* calls of recordUsage

runVars == <<runOp, saved, runArgs, raw, hasIntegration, emitted, exitCode,
             usageRecorded>>

NotFound == <<"undefined">>

NoOutput == [format |-> "none", command |-> <<>>]

RunIdle ==
  /\ runOp = "none"
  /\ saved = NotFound
  /\ runArgs = <<>>
  /\ raw = FALSE
  /\ hasIntegration = FALSE
  /\ emitted = NoOutput
  /\ exitCode = 0
  /\ usageRecorded = 0

\* core/validation.ts: one call of validateId.
VARIABLES
  vop,         \* "validateId" when it has just returned, "none" between calls
  candidate,   \* its id argument
  verdict      \* the ValidationResult it returned

validationVars == <<vop, candidate, verdict>>

NoValidation == [valid |-> FALSE, error |-> "none"]

ValidationIdle ==
  /\ vop = "none"
  /\ candidate = <<>>
  /\ verdict = NoValidation

\* storage/store.ts: the commands file, and one call of a store function.
VARIABLES
  file,         \* store.commands as the commands file holds it
  storeOp,      \* the function that has just settled, "none" between calls
  before,       \* the file when the call was made
  targetId,     \* its id argument
  text,         \* addCommand: its command argument
  updates,      \* updateCommand: its updates argument
  importStore,  \* importCommands: importStore.commands
  overwrite,    \* importCommands: options.overwrite
  outcome       \* how the call settled: thrown error, saved or not, counts

storeVars == <<file, storeOp, before, targetId, text, updates, importStore,
               overwrite, outcome>>

NoUpdates == [n \in {} |-> TRUE]

NoOutcome == [threw |-> "none", saved |-> FALSE, imported |-> 0, skipped |-> 0]

NoCall ==
  /\ storeOp = "none"
  /\ before = <<>>
  /\ targetId = <<>>
  /\ text = <<>>
  /\ updates = NoUpdates
  /\ importStore = <<>>
  /\ overwrite = FALSE
  /\ outcome = NoOutcome

StoreIdle == file = <<>> /\ NoCall

\* storage/store.ts: two store functions that run at the same time, and the
\* files saveStore works on.
VARIABLES
  inodes,      \* the content of each file there is, by inode
  fileInode,   \* the inode the commands file path names
  tempInode,   \* by pid: the inode the temp file path names, NoInode if none
  running,     \* by call: the function, its position and what it holds
  start        \* store.commands of the commands file before the two calls

asyncVars == <<inodes, fileInode, tempInode, running, start>>

NoInode == 0

AsyncIdle ==
  /\ inodes = <<>>
  /\ fileInode = NoInode
  /\ tempInode = <<>>
  /\ running = <<>>
  /\ start = <<>>

VARIABLES
  items,          \* useListNavigation: the items of the last render
  selectedIndex,  \* useListNavigation: the selectedIndex state
  wrap,           \* useListNavigation: options.wrap ?? true
  navOp           \* the callback or list change that ran last, "none" at mount

navVars == <<items, selectedIndex, wrap, navOp>>

NavIdle == items = <<>> /\ selectedIndex = 0 /\ wrap = TRUE /\ navOp = "none"

VARIABLES
  app,            \* App: view, editingCommand, deletingCommand, executingCommand
  searchFocused,  \* App: searchFocused
  inflight,       \* App: the async handlers awaiting the store, per handler
  exited,         \* App: handleExit has run
  tuiOp           \* the key handler or completion that ran last

tuiVars == <<app, searchFocused, inflight, exited, tuiOp>>

\* useState<Command | null>(null)
NoCommand == [id |-> "null", placeholders |-> FALSE]

AppStart ==
  [view |-> "list", editingCommand |-> NoCommand, deletingCommand |-> NoCommand,
   executingCommand |-> NoCommand]

Handlers ==
  {"handleAdd", "handleEdit", "handleDelete", "handleExecute",
   "handlePlaceholderSubmit"}

TuiIdle ==
  /\ app = AppStart
  /\ searchFocused = FALSE
  /\ inflight = [h \in Handlers |-> 0]
  /\ exited = FALSE
  /\ tuiOp = "none"

VARIABLES
  argv,    \* parseArgs: process.argv.slice(2)
  parsed   \* parseArgs: the ParsedArgs it returned

argVars == <<argv, parsed>>

NoFlags ==
  [help |-> FALSE, version |-> FALSE, exec |-> FALSE, raw |-> FALSE,
   noTui |-> FALSE, output |-> Undefined]

NoParse ==
  [subcommand |-> <<"null">>, commandId |-> Undefined, args |-> <<>>,
   flags |-> NoFlags]

ArgIdle == argv = <<>> /\ parsed = NoParse

vars == <<placeholderVars, searchVars, runVars, validationVars, storeVars,
    asyncVars,
    navVars,
    tuiVars,
    argVars>>

\* What the placeholder functions leave alone.
besidePlaceholders == <<searchVars, runVars, validationVars, storeVars,
    asyncVars,
    navVars,
    tuiVars,
    argVars>>

BesidePlaceholdersIdle == SearchIdle /\ RunIdle /\ ValidationIdle /\ StoreIdle /\ AsyncIdle /\ NavIdle /\ TuiIdle /\ ArgIdle

Init ==
  /\ lastIndex = 0
  /\ op = "none"
  /\ command = <<>>
  /\ values = NoValues
  /\ placeholders = <<>>
  /\ args = <<>>
  /\ ret = <<>>
  /\ replaced = <<>>
  /\ returned = <<>>
  /\ kept = 0
  /\ entryIndex = 0
  /\ BesidePlaceholdersIdle

NoSubstitution ==
  /\ replaced' = <<>>
  /\ returned' = <<>>
  /\ kept' = 0

\* A caller that holds no placeholder list calls one of the three functions
\* that use PLACEHOLDER_REGEX.
CallParsePlaceholders ==
  /\ op = "none" /\ placeholders = <<>>
  /\ \E cmd \in Templates :
       LET r == parsePlaceholders(cmd, lastIndex)
       IN  /\ op' = "parsePlaceholders"
           /\ command' = cmd
           /\ ret' = r.ret
           /\ lastIndex' = r.lastIndex
           /\ entryIndex' = lastIndex
           /\ NoSubstitution
           /\ UNCHANGED <<values, placeholders, args>>
           /\ UNCHANGED besidePlaceholders

CallHasPlaceholders ==
  /\ op = "none" /\ placeholders = <<>>
  /\ \E cmd \in Templates :
       LET r == hasPlaceholders(cmd, lastIndex)
       IN  /\ op' = "hasPlaceholders"
           /\ command' = cmd
           /\ ret' = r.ret
           /\ lastIndex' = r.lastIndex
           /\ entryIndex' = lastIndex
           /\ NoSubstitution
           /\ UNCHANGED <<values, placeholders, args>>
           /\ UNCHANGED besidePlaceholders

CallSubstitutePlaceholders ==
  /\ op = "none" /\ placeholders = <<>>
  /\ \E cmd \in Templates, vals \in SubstituteValues :
       LET r == substitutePlaceholders(cmd, vals)
       IN  /\ op' = "substitutePlaceholders"
           /\ command' = cmd
           /\ values' = vals
           /\ ret' = r.ret
           /\ replaced' = r.replaced
           /\ returned' = r.returned
           /\ kept' = r.kept
           /\ lastIndex' = r.lastIndex
           /\ UNCHANGED <<placeholders, args, entryIndex>>
           /\ UNCHANGED besidePlaceholders

\* A caller passes the list parsePlaceholders gave it (const placeholders =
\* parsePlaceholders(command.command)) to the three functions that take one.
CallValidatePlaceholderValues ==
  /\ op = "none"
  /\ \E vals \in ValueMaps :
       /\ op' = "validatePlaceholderValues"
       /\ values' = vals
       /\ ret' = validatePlaceholderValues(placeholders, vals)
       /\ NoSubstitution
       /\ UNCHANGED <<lastIndex, command, placeholders, args, entryIndex>>
       /\ UNCHANGED besidePlaceholders

CallBuildInitialValues ==
  /\ op = "none"
  /\ op' = "buildInitialValues"
  /\ ret' = buildInitialValues(placeholders)
  /\ NoSubstitution
  /\ UNCHANGED <<lastIndex, command, values, placeholders, args, entryIndex>>
  /\ UNCHANGED besidePlaceholders

CallMapArgsToPlaceholders ==
  /\ op = "none"
  /\ \E as \in ArgLists :
       /\ op' = "mapArgsToPlaceholders"
       /\ args' = as
       /\ ret' = mapArgsToPlaceholders(placeholders, as)
       /\ NoSubstitution
       /\ UNCHANGED <<lastIndex, command, values, placeholders, entryIndex>>
       /\ UNCHANGED besidePlaceholders

\* handleExec and handleRun validate the mapping mapArgsToPlaceholders
\* returned, against the same list.
CallValidateMappedArgs ==
  /\ op = "mapArgsToPlaceholders"
  /\ op' = "validatePlaceholderValues"
  /\ values' = ret
  /\ ret' = validatePlaceholderValues(placeholders, ret)
  /\ NoSubstitution
  /\ UNCHANGED <<lastIndex, command, placeholders, args, entryIndex>>
  /\ UNCHANGED besidePlaceholders

\* The caller is done with the return value: it keeps the list
\* parsePlaceholders returned, or drops what it holds.
Return ==
  /\ op # "none"
  /\ op' = "none"
  /\ command' = <<>>
  /\ values' = NoValues
  /\ args' = <<>>
  /\ ret' = <<>>
  /\ placeholders' = IF op = "parsePlaceholders" THEN ret ELSE <<>>
  /\ entryIndex' = 0
  /\ NoSubstitution
  /\ UNCHANGED lastIndex
  /\ UNCHANGED besidePlaceholders

Next ==
  \/ CallParsePlaceholders
  \/ CallHasPlaceholders
  \/ CallSubstitutePlaceholders
  \/ CallValidatePlaceholderValues
  \/ CallBuildInitialValues
  \/ CallMapArgsToPlaceholders
  \/ CallValidateMappedArgs
  \/ Return

Spec == Init /\ [][Next]_vars

(* ---------------------------------------------------- what the claims say *)

\* The matches a scan of s from position zero visits: a match of the regex
\* that no match starting further left runs over.
ScanStarts(s) ==
  {i \in 1..Len(s) : MatchEnd(s, i) # 0 /\ \A j \in 1..(i - 1) : MatchEnd(s, j) < i}

\* The elements of a set of positions, in increasing order.
InOrder(S) ==
  [k \in 1..Cardinality(S) |-> CHOOSE i \in S : Cardinality({j \in S : j < i}) = k - 1]

Chars(s) == {s[k] : k \in 1..Len(s)}

HasPair(s) == \E p \in 1..(Len(s) - 1) : s[p] = "\\" /\ s[p + 1] \in BraceChars

\* The first scan match of each name.
FirstOccurrences(s) ==
  {i \in ScanStarts(s) :
     \A j \in ScanStarts(s) :
       j < i => MatchGroups(s, j).name # MatchGroups(s, i).name}

\* The per-match policy of substitution: the value when present and
\* non-empty, else the match's own default, else the matched text.
PolicyText(g, vals) ==
  IF g.name \in DOMAIN vals /\ vals[g.name] # <<>> THEN vals[g.name]
  ELSE IF g.defaultValue # Undefined THEN g.defaultValue
  ELSE g.match

\* s with every scan match replaced by its policy text, position by position.
PolicyApplied(s, vals) ==
  Flatten([p \in 1..Len(s) |->
    IF p \in ScanStarts(s) THEN PolicyText(MatchGroups(s, p), vals)
    ELSE IF \E i \in ScanStarts(s) : i < p /\ p <= MatchEnd(s, i) THEN <<>>
    ELSE <<s[p]>>])

\* s without the backslash of every backslash-brace pair.
PairsDropped(s) ==
  Flatten([p \in 1..Len(s) |->
    IF s[p] = "\\" /\ p < Len(s) /\ s[p + 1] \in BraceChars THEN <<>>
    ELSE <<s[p]>>])

(* C1: parsePlaceholders(t) returns what it returns as the first call ever  *)
(* made, whatever calls came before it.                                     *)
C1_ParseIsRestartable ==
  op = "parsePlaceholders" => ret = parsePlaceholders(command, 0).ret

C3_ParseEmitsFirstOccurrences ==
  op = "parsePlaceholders" =>
    LET first == InOrder(FirstOccurrences(command))
    IN  /\ Len(ret) = Len(first)
        /\ \A k \in 1..Len(first) :
             LET g == MatchGroups(command, first[k])
             IN  /\ ret[k].name = g.name
                 /\ ret[k].defaultValue = g.defaultValue
                 /\ ret[k].required = (g.defaultValue = Undefined)
                 /\ ret[k].match = g.match
                 /\ (ret[k].defaultValue # Undefined
                       => "}" \notin Chars(ret[k].defaultValue))

(* C4: a well-formed {name} or {name:default} is treated as a placeholder   *)
(* by parse, hasPlaceholders and substitute unless the backslash before its *)
(* opening brace is unescaped, that is, unless an odd number of backslashes *)
(* stands before the brace.                                                 *)
BackslashRun(s, i) ==
  Cardinality({r \in 1..(i - 1) : \A k \in (i - r)..(i - 1) : s[k] = "\\"})

C4_End(s, i) == IF BackslashRun(s, i) % 2 = 1 THEN 0 ELSE BodyEnd(s, i)

C4_Starts(s) ==
  {i \in 1..Len(s) : C4_End(s, i) # 0 /\ \A j \in 1..(i - 1) : C4_End(s, j) < i}

C4_RecognizedUnlessUnescapedBackslash ==
  /\ op = "hasPlaceholders" => (ret <=> C4_Starts(command) # {})
  /\ op = "parsePlaceholders" =>
       {ret[k].name : k \in 1..Len(ret)}
         = {SubSeq(command, i + 1, NameEnd(command, i)) : i \in C4_Starts(command)}
  /\ op = "substitutePlaceholders" =>
       Len(returned) = Cardinality(C4_Starts(command))

C6_ValidMeansNoMatchKept ==
  op = "substitutePlaceholders"
    /\ validatePlaceholderValues(parsePlaceholders(command, 0).ret, values).valid
    => kept = 0

C8_UnescapeAfterOnePass ==
  op = "substitutePlaceholders" =>
    ret = PairsDropped(PolicyApplied(command, values))

\* A value that is itself a placeholder with a value of its own was
\* inserted, and so was a value that holds a backslash-brace pair.
C8_Witness ==
  /\ op = "substitutePlaceholders"
  /\ \E k \in 1..Len(returned) :
       /\ MatchEnd(returned[k], 1) # 0
       /\ HasValue(values, MatchGroups(returned[k], 1).name)
  /\ \E k \in 1..Len(returned) : HasPair(returned[k])
  /\ ret # replaced

C11_MatchesSomewhere(s) ==
  \E i \in 1..Len(s) :
    /\ s[i] = "{"
    /\ (i = 1 \/ s[i - 1] # "\\")
    /\ i < Len(s)
    /\ s[i + 1] \in NameStartChars
    /\ \E e \in (i + 2)..Len(s) :
         /\ s[e] = "}"
         /\ \E n \in (i + 1)..(e - 1) :
              /\ \A k \in (i + 2)..n : s[k] \in NameChars
              /\ \/ n + 1 = e
                 \/ s[n + 1] = ":" /\ \A k \in (n + 2)..(e - 1) : s[k] # "}"

C11_NoMatchIsLiteral ==
  /\ (op = "parsePlaceholders" /\ ~C11_MatchesSomewhere(command)) => ret = <<>>
  /\ (op = "substitutePlaceholders" /\ ~C11_MatchesSomewhere(command)) =>
       /\ returned = <<>>
       /\ replaced = command
       /\ ret = PairsDropped(command)
       /\ (Chars(command) \cap BraceChars = {} => ret = command)

\* substitutePlaceholders was given values and a template whose only
\* placeholder-like text stands behind a backslash.
C11_Witness ==
  /\ op = "substitutePlaceholders"
  /\ ~C11_MatchesSomewhere(command)
  /\ \E i \in 1..Len(command) : BodyEnd(command, i) # 0
  /\ values # NoValues
  /\ ret = PairsDropped(command)

(* --------------------------------------------------- utils/fuzzy.ts model *)

MaxUsage == 2
MaxQuery == 2

\* Ids as the store holds them, and queries as a user types them.
Ids == {<<"a">>, <<"a", "-">>, <<"b", "0">>}
QueryChars == {" ", "a"}
Queries == SeqsUpTo(QueryChars, MaxQuery)

\* The fields of a Command that searchCommands and sortCommands read.
Commands == [id : Ids, favorite : BOOLEAN, usageCount : 0..MaxUsage]

DistinctIds(cs) == \A i, j \in 1..Len(cs) : i # j => cs[i].id # cs[j].id

\* The arrays getCommands() hands over: no id twice.
CommandLists == {cs \in SeqsUpTo(Commands, Cardinality(Ids)) : DistinctIds(cs)}

\* String.prototype.trim on a query.
RECURSIVE TrimStart(_)
TrimStart(s) ==
  IF s # <<>> /\ Head(s) = " " THEN TrimStart(Tail(s)) ELSE s

RECURSIVE TrimEnd(_)
TrimEnd(s) ==
  IF s # <<>> /\ s[Len(s)] = " " THEN TrimEnd(SubSeq(s, 1, Len(s) - 1)) ELSE s

\* A test of the query as it is typed.
NoTrim(s) == s

Trim(s) == TrimEnd(TrimStart(s))

\* Collation rank of the characters of an id: punctuation, digits, letters.
CharRank(c) == CASE c = "-" -> 0 [] c = "0" -> 1 [] c = "a" -> 2 [] c = "b" -> 3

\* a.localeCompare(b) on ids.
RECURSIVE LocaleCompareFrom(_, _, _)
LocaleCompareFrom(a, b, i) ==
  IF i > Len(a) /\ i > Len(b) THEN 0
  ELSE IF i > Len(a) THEN -1
  ELSE IF i > Len(b) THEN 1
  ELSE IF a[i] = b[i] THEN LocaleCompareFrom(a, b, i + 1)
  ELSE IF CharRank(a[i]) < CharRank(b[i]) THEN -1 ELSE 1

localeCompare(a, b) == LocaleCompareFrom(a, b, 1)

\* Comparators that differ from the one of sortCommands in one line.
SortComparatorUsageAscending(a, b) ==
  IF a.favorite # b.favorite THEN (IF a.favorite THEN -1 ELSE 1)
  ELSE IF a.usageCount # b.usageCount THEN a.usageCount - b.usageCount
  ELSE localeCompare(a.id, b.id)

SortComparatorFavoriteUntested(a, b) ==
  IF a.favorite THEN -1
  ELSE IF a.usageCount # b.usageCount THEN b.usageCount - a.usageCount
  ELSE localeCompare(a.id, b.id)

SortComparatorNoId(a, b) ==
  IF a.favorite # b.favorite THEN (IF a.favorite THEN -1 ELSE 1)
  ELSE IF a.usageCount # b.usageCount THEN b.usageCount - a.usageCount
  ELSE 0

\* The comparator sortCommands passes to Array.prototype.sort.
SortComparator(a, b) ==
  IF a.favorite # b.favorite THEN (IF a.favorite THEN -1 ELSE 1)
  ELSE IF a.usageCount # b.usageCount THEN b.usageCount - a.usageCount
  ELSE localeCompare(a.id, b.id)

\* Array.prototype.sort, a stable sort: each element is moved left past the
\* elements the comparator puts it before.
RECURSIVE InsertPos(_, _, _)
InsertPos(s, x, j) ==
  IF j >= 1 /\ SortComparator(x, s[j]) < 0 THEN InsertPos(s, x, j - 1) ELSE j

Insert(s, x) ==
  LET j == InsertPos(s, x, Len(s))
  IN  SubSeq(s, 1, j) \o <<x>> \o SubSeq(s, j + 1, Len(s))

RECURSIVE SortPrefix(_, _)
SortPrefix(cs, k) ==
  IF k = 0 THEN <<>> ELSE Insert(SortPrefix(cs, k - 1), cs[k])

ArraySort(cs) == SortPrefix(cs, Len(cs))

\* A sort of the array that was passed, without the copy.
sortCommandsInPlace(cs) ==
  [ret |-> ArraySort(cs), commands |-> ArraySort(cs), fresh |-> FALSE]

\* sortCommands(commands): the sorted copy, and the argument after the call.
sortCommands(cs) ==
  [ret |-> ArraySort(cs), commands |-> cs, fresh |-> TRUE]

\* What fuse.search(query) can give for an index over cs: each record of the
\* index at most once, in the order of the scores.
RECURSIVE Arrangements(_)
Arrangements(S) ==
  {<<>>} \cup UNION {{<<x>> \o t : t \in Arrangements(S \ {x})} : x \in S}

FuseSearch(cs, q) == Arrangements({cs[i] : i \in 1..Len(cs)})

\* The matches as fuse.search ordered them.
RelevanceOrder(m) == [ret |-> m, commands |-> m, fresh |-> TRUE]

\* return sortCommands(matched)
SortMatched(m) == sortCommands(m)

\* searchCommands(commands, query), m being what fuse.search returns.
searchCommands(cs, q, m) ==
  IF Trim(q) = <<>>
  THEN LET r == sortCommands(cs)
       IN  [ret |-> r.ret, commands |-> r.commands, matched |-> <<>>,
            fresh |-> r.fresh]
  ELSE LET r == SortMatched(m)
       IN  [ret |-> r.ret, commands |-> cs, matched |-> m, fresh |-> r.fresh]

PlaceholdersIdle ==
  /\ lastIndex = 0
  /\ op = "none"
  /\ command = <<>>
  /\ values = NoValues
  /\ placeholders = <<>>
  /\ args = <<>>
  /\ ret = <<>>
  /\ replaced = <<>>
  /\ returned = <<>>
  /\ kept = 0
  /\ entryIndex = 0

besideSearch == <<placeholderVars, runVars, validationVars, storeVars,
    asyncVars,
    navVars,
    tuiVars,
    argVars>>

BesideSearchIdle ==
  PlaceholdersIdle /\ RunIdle /\ ValidationIdle /\ StoreIdle /\ AsyncIdle /\ NavIdle /\ TuiIdle /\ ArgIdle

InitSearch == SearchIdle /\ BesideSearchIdle

CallSearchCommands ==
  /\ sop = "none"
  /\ \E cs \in CommandLists, q \in Queries :
       \E m \in (IF Trim(q) = <<>> THEN {<<>>} ELSE FuseSearch(cs, q)) :
         LET r == searchCommands(cs, q, m)
         IN  /\ sop' = "searchCommands"
             /\ input' = cs
             /\ commands' = r.commands
             /\ query' = q
             /\ matched' = r.matched
             /\ result' = r.ret
             /\ fresh' = r.fresh
             /\ calls' = 1
  /\ UNCHANGED besideSearch

CallSortCommands ==
  /\ sop = "none"
  /\ \E cs \in CommandLists :
       LET r == sortCommands(cs)
       IN  /\ sop' = "sortCommands"
           /\ input' = cs
           /\ commands' = r.commands
           /\ result' = r.ret
           /\ fresh' = r.fresh
           /\ calls' = 1
           /\ UNCHANGED <<query, matched>>
  /\ UNCHANGED besideSearch

\* sortCommands(sortCommands(xs)): the array a call returned is sorted again.
CallSortCommandsAgain ==
  /\ sop # "none" /\ calls = 1
  /\ LET r == sortCommands(result)
     IN  /\ sop' = "sortCommands"
         /\ input' = result
         /\ commands' = r.commands
         /\ result' = r.ret
         /\ fresh' = r.fresh
         /\ calls' = 2
         /\ query' = <<>>
         /\ matched' = <<>>
  /\ UNCHANGED besideSearch

ReturnSearch ==
  /\ sop # "none"
  /\ sop' = "none"
  /\ input' = <<>>
  /\ commands' = <<>>
  /\ query' = <<>>
  /\ matched' = <<>>
  /\ result' = <<>>
  /\ fresh' = TRUE
  /\ calls' = 0
  /\ UNCHANGED besideSearch

NextSearch ==
  \/ CallSearchCommands
  \/ CallSortCommands
  \/ CallSortCommandsAgain
  \/ ReturnSearch

SpecSearch == InitSearch /\ [][NextSearch]_vars

(* ------------------------------------------------ claims on utils/fuzzy.ts *)

Range(s) == {s[i] : i \in 1..Len(s)}

Blank(q) == \A i \in 1..Len(q) : q[i] = " "

\* t holds every element of s exactly once, and nothing else.
IsPermutation(t, s) ==
  /\ Len(t) = Len(s)
  /\ \A x \in Range(s) \cup Range(t) :
       Cardinality({i \in 1..Len(s) : s[i] = x}) =
       Cardinality({i \in 1..Len(t) : t[i] = x})

Reorderings(s) == {p \in Arrangements(Range(s)) : Len(p) = Len(s)}

\* a may stand directly before b in the order of the three keys.
MayPrecede(a, b) ==
  /\ a.favorite \/ ~b.favorite
  /\ a.favorite = b.favorite => a.usageCount >= b.usageCount
  /\ (a.favorite = b.favorite /\ a.usageCount = b.usageCount) =>
       localeCompare(a.id, b.id) <= 0

(* C12: searchCommands with a query that is empty or only whitespace        *)
(* returns every input command exactly once, in the order sortCommands      *)
(* gives the whole input.                                                   *)
C12_BlankQueryReturnsAllSorted ==
  (sop = "searchCommands" /\ Blank(query)) =>
    /\ IsPermutation(result, input)
    /\ result = sortCommands(input).ret

\* A whitespace query on three commands that were not in sorted order.
C12_Witness ==
  /\ sop = "searchCommands"
  /\ query # <<>> /\ Blank(query)
  /\ Len(input) = Cardinality(Ids)
  /\ result # input
  /\ IsPermutation(result, input)

(* C13: for a query that is not blank, the result of searchCommands holds   *)
(* only input commands, none twice, is empty for an empty input, and is the *)
(* sortCommands order of the matched set whatever order the scores gave it. *)
C13_MatchesInSortOrder ==
  (sop = "searchCommands" /\ ~Blank(query)) =>
    /\ Range(result) \subseteq Range(input)
    /\ \A i, j \in 1..Len(result) : i # j => result[i] # result[j]
    /\ input = <<>> => result = <<>>
    /\ Range(result) = Range(matched)
    /\ \A p \in Reorderings(matched) : result = sortCommands(p).ret

\* Two or more commands matched, not all of the input, and the scores
\* ordered them otherwise than the sort does.
C13_Witness ==
  /\ sop = "searchCommands"
  /\ ~Blank(query)
  /\ Len(matched) >= 2
  /\ Len(matched) < Len(input)
  /\ matched # result
  /\ Range(result) = Range(matched)

(* C14: sortCommands returns a permutation of its input in which every      *)
(* adjacent pair is in order: favorites first, then higher usageCount, then *)
(* the id in ascending order.                                               *)
C14_SortedByFavoriteUsageId ==
  sop = "sortCommands" =>
    /\ IsPermutation(result, input)
    /\ \A k \in 1..(Len(result) - 1) : MayPrecede(result[k], result[k + 1])

\* A favorite was put before a non-favorite of higher usage that the input
\* had before it.
C14_Witness ==
  /\ sop = "sortCommands" /\ calls = 1
  /\ \E i, j \in 1..Len(result) :
       /\ i < j
       /\ result[i].favorite /\ ~result[j].favorite
       /\ result[i].usageCount < result[j].usageCount
       /\ \E m, n \in 1..Len(input) :
            m < n /\ input[m] = result[j] /\ input[n] = result[i]

(* C15: sortCommands is idempotent: sorting what a call returned returns it *)
(* unchanged, element by element.                                           *)
C15_SortIsIdempotent == calls = 2 => result = input

\* The output of a call, holding two favorites, was sorted again.
C15_Witness ==
  /\ calls = 2
  /\ sop = "sortCommands"
  /\ Cardinality({i \in 1..Len(input) : input[i].favorite}) >= 2
  /\ result = input

(* C16: on commands with pairwise distinct ids the comparator of            *)
(* sortCommands is a strict total order, and sortCommands returns the same  *)
(* sequence for every permutation of its input.                             *)
C16_TotalOrderSoOneOutput ==
  (sop = "sortCommands" /\ calls = 1) =>
    /\ \A a, b, c \in Range(input) :
         /\ SortComparator(a, a) = 0
         /\ SortComparator(a, b) < 0 <=> SortComparator(b, a) > 0
         /\ a # b => SortComparator(a, b) # 0
         /\ (SortComparator(a, b) < 0 /\ SortComparator(b, c) < 0) =>
              SortComparator(a, c) < 0
    /\ \A p \in Reorderings(input) : sortCommands(p).ret = result

\* Three commands that only their ids tell apart, passed out of order.
C16_Witness ==
  /\ sop = "sortCommands" /\ calls = 1
  /\ Len(input) = Cardinality(Ids)
  /\ \A i, j \in 1..Len(input) :
       input[i].favorite = input[j].favorite /\
       input[i].usageCount = input[j].usageCount
  /\ result # input
  /\ \A p \in Reorderings(input) : sortCommands(p).ret = result

MaxRunPieces == 3
MaxRunArgs == 2

\* The command texts a store can hold, and the positional arguments parseArgs
\* passes on: it drops empty strings.
RunTemplates == {Flatten(ps) : ps \in SeqsUpTo(Pieces, MaxRunPieces)}
RunArgLists == SeqsUpTo(ArgStrings \ {<<>>}, MaxRunArgs)

\* Lines 101-118 of handleExec, the same as lines 154-169 of handleRun, from
\* the innermost step outwards. The process is new, so
\* PLACEHOLDER_REGEX.lastIndex is 0.
ResolveMapped(template, phs, vals) ==
  IF ~validatePlaceholderValues(phs, vals).valid
  THEN [valid |-> FALSE, resolved |-> template]
  ELSE [valid |-> TRUE, resolved |-> substitutePlaceholders(template, vals).ret]

ResolveParsed(template, as, phs) ==
  IF Len(phs) > 0
  THEN ResolveMapped(template, phs, mapArgsToPlaceholders(phs, as))
  ELSE [valid |-> TRUE, resolved |-> template]

ResolveCommand(template, as) ==
  ResolveParsed(template, as, parsePlaceholders(template, 0).ret)

Failed == [emitted |-> NoOutput, exitCode |-> 1, usageRecorded |-> 0]

\* The end of handleExec: console.log, recordUsage, process.exit(0).
ExecOutput(res, r) ==
  IF ~res.valid THEN Failed
  ELSE [emitted |-> [format |-> IF r THEN "raw" ELSE "formatExecOutput",
                     command |-> res.resolved],
        exitCode |-> 0, usageRecorded |-> 1]

\* handleExec(commandId, args, raw), with what getCommand(commandId) found.
handleExec(cmd, as, r) ==
  IF cmd = NotFound THEN Failed ELSE ExecOutput(ResolveCommand(cmd, as), r)

\* The end of the branch of handleRun without shell integration.
NoIntegrationOutput(res) ==
  IF ~res.valid THEN Failed
  ELSE [emitted |-> [format |-> "formatNoShellIntegration",
                     command |-> res.resolved],
        exitCode |-> 0, usageRecorded |-> 0]

\* handleRun(commandId, args), with what getCommand(commandId) found and
\* whether the shell integration is installed.
handleRun(cmd, as, integration) ==
  IF cmd = NotFound THEN Failed
  ELSE IF ~integration THEN NoIntegrationOutput(ResolveCommand(cmd, as))
  ELSE [emitted |-> [format |-> "formatExecOutput", command |-> cmd],
        exitCode |-> 0, usageRecorded |-> 0]

besideRun == <<placeholderVars, searchVars, validationVars, storeVars,
    asyncVars,
    navVars,
    tuiVars,
    argVars>>

InitRun ==
  RunIdle /\ PlaceholdersIdle /\ SearchIdle /\ ValidationIdle /\ StoreIdle /\ AsyncIdle /\ NavIdle /\ TuiIdle /\ ArgIdle

\* main: args.flags.exec || args.flags.raw
MainExec ==
  /\ runOp = "none"
  /\ \E cmd \in RunTemplates \cup {NotFound}, as \in RunArgLists, r \in BOOLEAN :
       LET out == handleExec(cmd, as, r)
       IN  /\ runOp' = "handleExec"
           /\ saved' = cmd
           /\ runArgs' = as
           /\ raw' = r
           /\ emitted' = out.emitted
           /\ exitCode' = out.exitCode
           /\ usageRecorded' = out.usageRecorded
           /\ UNCHANGED hasIntegration
  /\ UNCHANGED besideRun

\* main: args.commandId without a subcommand, and the subcommand "run".
MainRun ==
  /\ runOp = "none"
  /\ \E cmd \in RunTemplates \cup {NotFound}, as \in RunArgLists,
        integration \in BOOLEAN :
       LET out == handleRun(cmd, as, integration)
       IN  /\ runOp' = "handleRun"
           /\ saved' = cmd
           /\ runArgs' = as
           /\ hasIntegration' = integration
           /\ emitted' = out.emitted
           /\ exitCode' = out.exitCode
           /\ usageRecorded' = out.usageRecorded
           /\ UNCHANGED raw
  /\ UNCHANGED besideRun

\* The process has ended; the next one starts from nothing.
ProcessExit ==
  /\ runOp # "none"
  /\ runOp' = "none"
  /\ saved' = NotFound
  /\ runArgs' = <<>>
  /\ raw' = FALSE
  /\ hasIntegration' = FALSE
  /\ emitted' = NoOutput
  /\ exitCode' = 0
  /\ usageRecorded' = 0
  /\ UNCHANGED besideRun

NextRun ==
  \/ MainExec
  \/ MainRun
  \/ ProcessExit

SpecRun == InitRun /\ [][NextRun]_vars

(* C18: whenever a run path emits the command text of a saved command, the  *)
(* text is substitutePlaceholders(template, mapArgsToPlaceholders(          *)
(* parsePlaceholders(template), args)), never the template as stored.       *)
C18_EmittedIsSubstituted ==
  emitted # NoOutput =>
    emitted.command =
      substitutePlaceholders(
        saved, mapArgsToPlaceholders(parsePlaceholders(saved, 0).ret, runArgs)).ret

\* Some placeholder of phs is required and has no non-empty value in vals.
RequiredIsMissing(phs, vals) ==
  \E i \in 1..Len(phs) : phs[i].required /\ ~HasValue(vals, phs[i].name)

(* C24: in --exec and --raw mode an unknown id, or a required placeholder   *)
(* without a non-empty value after positional binding, ends the process     *)
(* with code 1, no command text emitted and no usage recorded; usage is     *)
(* recorded at most once, exactly when a command was emitted and the exit   *)
(* code is 0, and the emitted command then has no placeholder left in it.   *)
C24_ExecFailsClosed ==
  runOp = "handleExec" =>
    LET phs == parsePlaceholders(saved, 0).ret
        vals == mapArgsToPlaceholders(phs, runArgs)
    IN  /\ (saved = NotFound \/ RequiredIsMissing(phs, vals)) =>
              /\ exitCode = 1
              /\ emitted = NoOutput
              /\ usageRecorded = 0
        /\ usageRecorded \in {0, 1}
        /\ usageRecorded = 1 <=> (emitted # NoOutput /\ exitCode = 0)
        /\ exitCode \in {0, 1}
        /\ exitCode = 1 => emitted = NoOutput
        /\ usageRecorded = 1 =>
              /\ emitted.format = IF raw THEN "raw" ELSE "formatExecOutput"
              /\ substitutePlaceholders(saved, vals).kept = 0

\* The part of C24 about the exit code, the output and the usage count only.
C24_ExitAndUsage ==
  runOp = "handleExec" =>
    LET phs == parsePlaceholders(saved, 0).ret
        vals == mapArgsToPlaceholders(phs, runArgs)
    IN  /\ (saved = NotFound \/ RequiredIsMissing(phs, vals)) =>
              /\ exitCode = 1
              /\ emitted = NoOutput
              /\ usageRecorded = 0
        /\ usageRecorded \in {0, 1}
        /\ usageRecorded = 1 <=> (emitted # NoOutput /\ exitCode = 0)
        /\ exitCode = 1 => emitted = NoOutput

(* ------------------------------------------------ core/validation.ts model *)

MaxIdLength == 50
MaxHead == 3

\* storage/types.ts
RESERVED_KEYWORDS ==
  { <<"a", "d", "d">>,
    <<"e", "d", "i", "t">>,
    <<"d", "e", "l", "e", "t", "e">>,
    <<"r", "m">>,
    <<"l", "i", "s", "t">>,
    <<"l", "s">>,
    <<"s", "e", "a", "r", "c", "h">>,
    <<"f", "a", "v">>,
    <<"f", "a", "v", "o", "r", "i", "t", "e">>,
    <<"f", "a", "v", "o", "r", "i", "t", "e", "s">>,
    <<"f", "a", "v", "s">>,
    <<"i", "n", "f", "o">>,
    <<"e", "x", "p", "o", "r", "t">>,
    <<"i", "m", "p", "o", "r", "t">>,
    <<"s", "e", "t", "u", "p">>,
    <<"i", "n", "i", "t">>,
    <<"r", "u", "n">>,
    <<"h", "e", "l", "p">> }

LowerAlnum ==
  {"a", "b", "c", "d", "e", "f", "g", "h", "i", "j", "k", "l", "m", "n", "o",
   "p", "q", "r", "s", "t", "u", "v", "w", "x", "y", "z",
   "0", "1", "2", "3", "4", "5", "6", "7", "8", "9"}

\* The ids tried: a head of any of these characters, then a run of "s".
HeadChars == {"l", "s", "0", "-", "L", "_"}
Pads == {0} \cup (MaxIdLength - MaxHead - 1)..(MaxIdLength + 1)

RECURSIVE Repeat(_, _)
Repeat(c, n) == IF n = 0 THEN <<>> ELSE <<c>> \o Repeat(c, n - 1)

CandidateIds ==
  {h \o Repeat("s", n) : h \in SeqsUpTo(HeadChars, MaxHead), n \in Pads}

\* A test of the characters alone: /^[a-z0-9-]+$/
IdCharsOnly(s) ==
  s # <<>> /\ \A i \in 1..Len(s) : s[i] \in LowerAlnum \cup {"-"}

\* ID_REGEX.test(id): /^[a-z0-9]+(-[a-z0-9]+)*$/, read from index i on,
\* afterAlnum telling whether the character before is one of [a-z0-9].
RECURSIVE IdRegexFrom(_, _, _)
IdRegexFrom(s, i, afterAlnum) ==
  IF i > Len(s) THEN afterAlnum
  ELSE IF s[i] \in LowerAlnum THEN IdRegexFrom(s, i + 1, TRUE)
  ELSE IF s[i] = "-" /\ afterAlnum THEN IdRegexFrom(s, i + 1, FALSE)
  ELSE FALSE

IdRegexTest(s) == IdRegexFrom(s, 1, FALSE)

validateId(s) ==
  IF s = <<>> THEN [valid |-> FALSE, error |-> "ID is required"]
  ELSE IF Len(s) > MaxIdLength
  THEN [valid |-> FALSE, error |-> "ID must be 50 characters or less"]
  ELSE IF s \in RESERVED_KEYWORDS
  THEN [valid |-> FALSE, error |-> "is a reserved keyword"]
  ELSE IF ~IdRegexTest(s)
  THEN [valid |-> FALSE, error |-> "ID must be lowercase alphanumeric with hyphens"]
  ELSE [valid |-> TRUE, error |-> "undefined"]

besideValidation == <<placeholderVars, searchVars, runVars, storeVars,
    asyncVars,
    navVars,
    tuiVars,
    argVars>>

InitValidation ==
  ValidationIdle /\ PlaceholdersIdle /\ SearchIdle /\ RunIdle /\ StoreIdle /\ AsyncIdle /\ NavIdle /\ TuiIdle /\ ArgIdle

CallValidateId ==
  /\ vop = "none"
  /\ \E s \in CandidateIds :
       /\ vop' = "validateId"
       /\ candidate' = s
       /\ verdict' = validateId(s)
  /\ UNCHANGED besideValidation

ReturnValidation ==
  /\ vop # "none"
  /\ vop' = "none"
  /\ candidate' = <<>>
  /\ verdict' = NoValidation
  /\ UNCHANGED besideValidation

NextValidation ==
  \/ CallValidateId
  \/ ReturnValidation

SpecValidation == InitValidation /\ [][NextValidation]_vars

(* C19: validateId reports valid exactly for the ids of 1 to 50 characters  *)
(* made of lowercase alphanumeric segments joined by single hyphens that    *)
(* are no reserved word; for every other string it returns valid = false    *)
(* together with an error message.                                          *)
C19_WellFormed(s) ==
  /\ Len(s) >= 1 /\ Len(s) <= 50
  /\ \A i \in 1..Len(s) : s[i] \in LowerAlnum \cup {"-"}
  /\ s[1] # "-" /\ s[Len(s)] # "-"
  /\ \A i \in 1..(Len(s) - 1) : ~(s[i] = "-" /\ s[i + 1] = "-")
  /\ s \notin RESERVED_KEYWORDS

MaxStoreUsage == 1

\* Ids and command texts of the records, as addCommand is given them.
StoreIds == {<<"a">>, <<"b", "0">>}
Texts == {<<"x">>, <<"y">>}

\* What Date.now() returns to a store function; a later call may be given
\* the same or an earlier value (the wall clock is not monotonic).
Times == {1, 2}

\* lastUsed?: number of a record that recordUsage has not touched.
NoTime == 0

\* The fields of a Command the store functions decide on; the description
\* is left out.
StoredCommands ==
  [id : StoreIds, command : Texts, favorite : BOOLEAN,
   usageCount : 0..MaxStoreUsage, createdAt : Times, updatedAt : Times,
   lastUsed : {NoTime} \cup Times]

\* updates: Partial<Pick<Command, "command" | "favorite">>
AllUpdates ==
  {NoUpdates}
    \cup {("command" :> c) : c \in Texts}
    \cup {("favorite" :> f) : f \in BOOLEAN}
    \cup {("command" :> c) @@ ("favorite" :> f) : c \in Texts, f \in BOOLEAN}

\* The records of the files importCommands is given: written by another
\* store at time 2, used once.
ImportRecords ==
  [id : StoreIds, command : Texts, favorite : BOOLEAN, usageCount : {1},
   createdAt : {2}, updatedAt : {2}, lastUsed : {2}]

\* The commands arrays of the files `comma import` reads: an id may repeat.
ImportStores == SeqsUpTo(ImportRecords, Cardinality(StoreIds))

\* exportCommands(): the store as loadStore() returns it.
exportCommands(cs) == cs

\* store.commands.findIndex((c) => c.id === id), counted from 1; 0 is -1.
FindIndex(cs, id) ==
  IF \E i \in 1..Len(cs) : cs[i].id = id
  THEN Min({i \in 1..Len(cs) : cs[i].id = id})
  ELSE 0

Settled(cs, didSave, threw) ==
  [commands |-> cs, saved |-> didSave, threw |-> threw, imported |-> 0,
   skipped |-> 0]

\* An addCommand that writes over the record of an id already present.
addCommandReplacing(cs, id, cmdText, now) ==
  LET newCommand == [id |-> id, command |-> cmdText, favorite |-> FALSE,
                 createdAt |-> now, updatedAt |-> now, usageCount |-> 0,
                 lastUsed |-> NoTime]
      index == FindIndex(cs, id)
  IN  IF index = 0 THEN Settled(Append(cs, newCommand), TRUE, "none")
      ELSE Settled([cs EXCEPT ![index] = newCommand], TRUE, "none")

\* Each function below is given what loadStore() returned and yields the
\* commands it passes to saveStore (or leaves unsaved) and how it settles.
addCommand(cs, id, cmdText, now) ==
  IF \E i \in 1..Len(cs) : cs[i].id = id
  THEN Settled(cs, FALSE, "already exists")
  ELSE Settled(Append(cs, [id |-> id, command |-> cmdText, favorite |-> FALSE,
                           createdAt |-> now, updatedAt |-> now,
                           usageCount |-> 0, lastUsed |-> NoTime]),
               TRUE, "none")

updateCommand(cs, id, u, now) ==
  LET index == FindIndex(cs, id)
  IN  IF index = 0 THEN Settled(cs, FALSE, "not found")
      ELSE LET existing == cs[index]
               updatedCommand ==
                 [id |-> existing.id,
                  command |-> IF "command" \in DOMAIN u THEN u.command
                              ELSE existing.command,
                  favorite |-> IF "favorite" \in DOMAIN u THEN u.favorite
                               ELSE existing.favorite,
                  createdAt |-> existing.createdAt,
                  updatedAt |-> now,
                  usageCount |-> existing.usageCount,
                  lastUsed |-> existing.lastUsed]
           IN  Settled([cs EXCEPT ![index] = updatedCommand], TRUE, "none")

deleteCommand(cs, id) ==
  LET index == FindIndex(cs, id)
  IN  IF index = 0 THEN Settled(cs, FALSE, "not found")
      ELSE Settled(SubSeq(cs, 1, index - 1) \o SubSeq(cs, index + 1, Len(cs)),
                   TRUE, "none")

\* getCommand(id), then updateCommand(id, { favorite: !command.favorite }).
toggleFavorite(cs, id, now) ==
  LET index == FindIndex(cs, id)
  IN  IF index = 0 THEN Settled(cs, FALSE, "not found")
      ELSE updateCommand(cs, id, "favorite" :> ~cs[index].favorite, now)

\* A recordUsage that also stamps updatedAt.
recordUsageStampingUpdate(cs, id, now) ==
  LET index == FindIndex(cs, id)
  IN  IF index = 0 THEN Settled(cs, FALSE, "none")
      ELSE Settled([cs EXCEPT ![index].usageCount = @ + 1,
                              ![index].lastUsed = now,
                              ![index].updatedAt = now], TRUE, "none")

recordUsage(cs, id, now) ==
  LET index == FindIndex(cs, id)
  IN  IF index = 0 THEN Settled(cs, FALSE, "none")
      ELSE Settled([cs EXCEPT ![index].usageCount = @ + 1,
                              ![index].lastUsed = now], TRUE, "none")

\* An import that looks for the id in the commands as they were loaded.
RECURSIVE ImportLoopStale(_, _, _, _, _, _)
ImportLoopStale(cs, loaded, cmds, ow, imported, skipped) ==
  IF cmds = <<>>
  THEN [commands |-> cs, saved |-> TRUE, threw |-> "none",
        imported |-> imported, skipped |-> skipped]
  ELSE LET cmd == Head(cmds)
           existingIndex == FindIndex(loaded, cmd.id)
       IN  IF existingIndex = 0
           THEN ImportLoopStale(Append(cs, cmd), loaded, Tail(cmds), ow,
                                imported + 1, skipped)
           ELSE IF ow
           THEN ImportLoopStale([cs EXCEPT ![existingIndex] = cmd], loaded,
                                Tail(cmds), ow, imported + 1, skipped)
           ELSE ImportLoopStale(cs, loaded, Tail(cmds), ow, imported, skipped + 1)

importCommandsStale(cs, cmds, ow) == ImportLoopStale(cs, cs, cmds, ow, 0, 0)

\* for (const cmd of importStore.commands) { ... }
RECURSIVE ImportLoop(_, _, _, _, _)
ImportLoop(cs, cmds, ow, imported, skipped) ==
  IF cmds = <<>>
  THEN [commands |-> cs, saved |-> TRUE, threw |-> "none",
        imported |-> imported, skipped |-> skipped]
  ELSE LET cmd == Head(cmds)
           existingIndex == FindIndex(cs, cmd.id)
       IN  IF existingIndex = 0
           THEN ImportLoop(Append(cs, cmd), Tail(cmds), ow, imported + 1, skipped)
           ELSE IF ow
           THEN ImportLoop([cs EXCEPT ![existingIndex] = cmd], Tail(cmds), ow,
                           imported + 1, skipped)
           ELSE ImportLoop(cs, Tail(cmds), ow, imported, skipped + 1)

\* An import that overwrites whatever the option says.
importCommandsOverwriting(cs, cmds, ow) == ImportLoop(cs, cmds, TRUE, 0, 0)

importCommands(cs, cmds, ow) == ImportLoop(cs, cmds, ow, 0, 0)

besideStore == <<placeholderVars, searchVars, runVars, validationVars,
    asyncVars,
    navVars,
    tuiVars,
    argVars>>

InitStore ==
  StoreIdle /\ PlaceholdersIdle /\ SearchIdle /\ RunIdle /\ ValidationIdle /\ AsyncIdle /\ NavIdle /\ TuiIdle /\ ArgIdle

\* The call settles: saveStore(store) has replaced the file when the
\* function reached it.
Settle(name, r) ==
  /\ storeOp' = name
  /\ before' = file
  /\ file' = IF r.saved THEN r.commands ELSE file
  /\ outcome' = [threw |-> r.threw, saved |-> r.saved,
                 imported |-> r.imported, skipped |-> r.skipped]

CallAddCommand ==
  /\ storeOp = "none"
  /\ \E id \in StoreIds, cmdText \in Texts, now \in Times :
       /\ Settle("addCommand", addCommand(file, id, cmdText, now))
       /\ targetId' = id
       /\ text' = cmdText
  /\ UNCHANGED <<updates, importStore, overwrite>>
  /\ UNCHANGED besideStore

CallUpdateCommand ==
  /\ storeOp = "none"
  /\ \E id \in StoreIds, u \in AllUpdates, now \in Times :
       /\ Settle("updateCommand", updateCommand(file, id, u, now))
       /\ targetId' = id
       /\ updates' = u
  /\ UNCHANGED <<text, importStore, overwrite>>
  /\ UNCHANGED besideStore

CallDeleteCommand ==
  /\ storeOp = "none"
  /\ \E id \in StoreIds :
       /\ Settle("deleteCommand", deleteCommand(file, id))
       /\ targetId' = id
  /\ UNCHANGED <<text, updates, importStore, overwrite>>
  /\ UNCHANGED besideStore

CallToggleFavorite ==
  /\ storeOp = "none"
  /\ \E id \in StoreIds, now \in Times :
       /\ Settle("toggleFavorite", toggleFavorite(file, id, now))
       /\ targetId' = id
  /\ UNCHANGED <<text, updates, importStore, overwrite>>
  /\ UNCHANGED besideStore

\* usageCount is kept within MaxStoreUsage.
CallRecordUsage ==
  /\ storeOp = "none"
  /\ \E id \in StoreIds, now \in Times :
       /\ \A i \in 1..Len(file) :
            file[i].id = id => file[i].usageCount < MaxStoreUsage
       /\ Settle("recordUsage", recordUsage(file, id, now))
       /\ targetId' = id
  /\ UNCHANGED <<text, updates, importStore, overwrite>>
  /\ UNCHANGED besideStore

CallImportCommands ==
  /\ storeOp = "none"
  /\ \E cmds \in ImportStores \cup {exportCommands(file)}, ow \in BOOLEAN :
       /\ Settle("importCommands", importCommands(file, cmds, ow))
       /\ importStore' = cmds
       /\ overwrite' = ow
  /\ UNCHANGED <<targetId, text, updates>>
  /\ UNCHANGED besideStore

\* The caller has the result; the file stays.
StoreReturn ==
  /\ storeOp # "none"
  /\ storeOp' = "none"
  /\ before' = <<>>
  /\ targetId' = <<>>
  /\ text' = <<>>
  /\ updates' = NoUpdates
  /\ importStore' = <<>>
  /\ overwrite' = FALSE
  /\ outcome' = NoOutcome
  /\ UNCHANGED file
  /\ UNCHANGED besideStore

NextStore ==
  \/ CallAddCommand
  \/ CallUpdateCommand
  \/ CallDeleteCommand
  \/ CallToggleFavorite
  \/ CallRecordUsage
  \/ CallImportCommands
  \/ StoreReturn

SpecStore == InitStore /\ [][NextStore]_vars

(* C20: the ids of the persisted collection are pairwise distinct after any *)
(* sequence of addCommand, updateCommand, deleteCommand, toggleFavorite,    *)
(* recordUsage and importCommands, with or without overwrite, an import     *)
(* file that repeats an id included.                                        *)
C20_IdsAreUnique ==
  \A i, j \in 1..Len(file) : file[i].id = file[j].id => i = j

\* An import whose file names one id twice was saved into a store that
\* already held another command.
C20_Witness ==
  /\ storeOp = "importCommands"
  /\ outcome.saved
  /\ Len(importStore) = 2
  /\ importStore[1].id = importStore[2].id
  /\ importStore[1] # importStore[2]
  /\ Len(before) = 1
  /\ Len(file) = 2

\* The fields of record r other than those named in fs.
Except(r, fs) == [f \in DOMAIN r \ fs |-> r[f]]

\* Only the record at index (0: none) may differ between cs and ds.
SameBeside(cs, ds, index) ==
  /\ Len(ds) = Len(cs)
  /\ \A i \in 1..Len(cs) : i # index => ds[i] = cs[i]

(* C23: updateCommand and toggleFavorite keep the id, createdAt, usageCount  *)
(* and lastUsed of the target record, every other record and the order;     *)
(* recordUsage adds exactly 1 to usageCount of the target, may change its   *)
(* lastUsed and nothing else, and does nothing, without an error, when the  *)
(* id is absent; outside deleteCommand and importCommands with overwrite    *)
(* every id that was stored stays at its position.                          *)
C23_MutatorsKeepTheRest ==
  storeOp # "none" =>
    LET index == FindIndex(before, targetId)
    IN  /\ (storeOp \in {"updateCommand", "toggleFavorite"} /\ outcome.saved) =>
              /\ index # 0
              /\ SameBeside(before, file, index)
              /\ Except(file[index], {"command", "favorite", "updatedAt"})
                   = Except(before[index], {"command", "favorite", "updatedAt"})
        /\ (storeOp = "recordUsage" /\ index # 0) =>
              /\ SameBeside(before, file, index)
              /\ file[index].usageCount = before[index].usageCount + 1
              /\ Except(file[index], {"usageCount", "lastUsed"})
                   = Except(before[index], {"usageCount", "lastUsed"})
        /\ (storeOp = "recordUsage" /\ index = 0) =>
              /\ file = before
              /\ outcome.threw = "none"
              /\ ~outcome.saved
        /\ (storeOp # "deleteCommand" /\ ~(storeOp = "importCommands" /\ overwrite)) =>
              /\ Len(file) >= Len(before)
              /\ \A i \in 1..Len(before) : file[i].id = before[i].id
              /\ storeOp \in {"addCommand", "importCommands"} =>
                    SubSeq(file, 1, Len(before)) = before

\* updateCommand gave a used record, stored beside another one, a new
\* command text and favorite flag at a new time.
C23_Witness ==
  /\ storeOp = "updateCommand"
  /\ outcome.saved
  /\ Len(before) = 2
  /\ DOMAIN updates = {"command", "favorite"}
  /\ \E i \in 1..2 :
       /\ before[i].id = targetId
       /\ before[i].usageCount = 1
       /\ before[i].lastUsed # NoTime
       /\ before[i].createdAt # before[i].lastUsed
       /\ file[i].command # before[i].command
       /\ file[i].favorite # before[i].favorite
       /\ file[i].updatedAt # before[i].updatedAt

\* The records of cmds whose id is neither in cs nor earlier in cmds.
RECURSIVE NewRecords(_, _)
NewRecords(cs, cmds) ==
  IF cmds = <<>> THEN <<>>
  ELSE IF FindIndex(cs, Head(cmds).id) # 0 THEN NewRecords(cs, Tail(cmds))
  ELSE <<Head(cmds)>> \o NewRecords(Append(cs, Head(cmds)), Tail(cmds))

\* The last record of cmds with the id, or r when there is none.
LastOf(cmds, r) ==
  LET at == {k \in 1..Len(cmds) : cmds[k].id = r.id}
  IN  IF at = {} THEN r ELSE cmds[CHOOSE k \in at : \A j \in at : j <= k]

(* C26: importCommands returns imported + skipped = the number of records  *)
(* of the import file; without overwrite the stored records stay as they   *)
(* are and the records with new ids are appended in file order; with       *)
(* overwrite a record of a stored id takes the place of the stored record; *)
(* a store's own export, imported without overwrite, imports 0, skips all  *)
(* and changes nothing.                                                     *)
C26_ImportMerges ==
  storeOp = "importCommands" =>
    /\ outcome.imported + outcome.skipped = Len(importStore)
    /\ outcome.threw = "none"
    /\ ~overwrite => file = before \o NewRecords(before, importStore)
    /\ ~overwrite =>
         outcome.imported = Len(NewRecords(before, importStore))
    /\ overwrite =>
         /\ Len(file) >= Len(before)
         /\ \A i \in 1..Len(before) : file[i] = LastOf(importStore, before[i])
         /\ outcome.skipped = 0
    /\ (~overwrite /\ importStore = exportCommands(before)) =>
         /\ outcome.imported = 0
         /\ outcome.skipped = Len(before)
         /\ file = before

\* A store of two records imported its own export without overwrite.
C26_Witness ==
  /\ storeOp = "importCommands"
  /\ ~overwrite
  /\ Len(before) = 2
  /\ importStore = exportCommands(before)
  /\ importStore \notin ImportStores
  /\ outcome.skipped = 2

(* C27: addCommand with a stored id throws 'already exists'; updateCommand, *)
(* deleteCommand and toggleFavorite with an id that is not stored throw     *)
(* 'not found'; a call that throws saves nothing and the persisted          *)
(* collection is what it was; a successful addCommand appends exactly one   *)
(* record, with favorite = false, usageCount = 0 and createdAt = updatedAt. *)
C27_ErrorsSaveNothing ==
  storeOp # "none" =>
    LET index == FindIndex(before, targetId)
    IN  /\ (storeOp = "addCommand" /\ index # 0) =>
              outcome.threw = "already exists"
        /\ (storeOp \in {"updateCommand", "deleteCommand", "toggleFavorite"}
              /\ index = 0) =>
              outcome.threw = "not found"
        /\ outcome.threw # "none" => ~outcome.saved /\ file = before
        /\ (storeOp = "addCommand" /\ index = 0) =>
              /\ outcome.threw = "none"
              /\ Len(file) = Len(before) + 1
              /\ SubSeq(file, 1, Len(before)) = before
              /\ LET added == file[Len(file)]
                 IN  /\ added.id = targetId
                     /\ added.command = text
                     /\ added.favorite = FALSE
                     /\ added.usageCount = 0
                     /\ added.createdAt = added.updatedAt
                     /\ added.lastUsed = NoTime

\* addCommand was refused for an id stored with another command text,
\* beside a second record.
C27_Witness ==
  /\ storeOp = "addCommand"
  /\ outcome.threw = "already exists"
  /\ Len(before) = 2
  /\ \E i \in 1..2 : before[i].id = targetId /\ before[i].command # text

(* ------------------------------- index.ts: add, edit and import of records *)

MaxCommandLength == 2000
MaxCliStored == 2

\* A command text one character over the limit of validateCommand.
LongText == [i \in 1..(MaxCommandLength + 1) |-> "x"]

\* validateCommand(command)
validateCommand(c) ==
  IF c = <<>> THEN [valid |-> FALSE, error |-> "Command is required"]
  ELSE IF Len(c) > MaxCommandLength
  THEN [valid |-> FALSE, error |-> "Command must be 2000 characters or less"]
  ELSE [valid |-> TRUE, error |-> "undefined"]

\* args.join(" ")
RECURSIVE JoinArgs(_)
JoinArgs(as) ==
  IF as = <<>> THEN <<>>
  ELSE IF Len(as) = 1 THEN as[1]
  ELSE as[1] \o <<" ">> \o JoinArgs(Tail(as))

\* What a user types for <id> (Undefined when nothing), and after it.
CliIds == {<<"a">>, <<"l", "s">>, <<"A">>, <<"a", "-">>}
CliArgLists == {<<>>, << <<"x">> >>, << <<"x">>, <<"y">> >>, << LongText >>}

\* The records of the file `comma import <file>` parses: any JSON.
ImportFileRecords ==
  [id : CliIds, command : {<<>>, <<"x">>, LongText}, favorite : {FALSE},
   usageCount : {0}, createdAt : {1}, updatedAt : {1}, lastUsed : {NoTime}]

ImportFiles == SeqsUpTo(ImportFileRecords, 1)

\* case "add" of handleSubcommand, given what loadStore() returns.
cliAdd(cs, commandId, as, now) ==
  IF commandId = Undefined \/ Len(as) = 0 THEN Settled(cs, FALSE, "usage")
  ELSE IF ~validateId(commandId).valid THEN Settled(cs, FALSE, "invalid id")
  ELSE IF ~validateCommand(JoinArgs(as)).valid
  THEN Settled(cs, FALSE, "invalid command")
  ELSE addCommand(cs, commandId, JoinArgs(as), now)

\* case "edit" of handleSubcommand; without args it opens the form, which
\* validates the command text the same way.
cliEdit(cs, commandId, as, now) ==
  IF commandId = Undefined THEN Settled(cs, FALSE, "usage")
  ELSE IF FindIndex(cs, commandId) = 0 THEN Settled(cs, FALSE, "not found")
  ELSE IF Len(as) = 0 THEN Settled(cs, FALSE, "none")
  ELSE IF ~validateCommand(JoinArgs(as)).valid
  THEN Settled(cs, FALSE, "invalid command")
  ELSE updateCommand(cs, commandId, "command" :> JoinArgs(as), now)

\* case "import" of handleSubcommand: importCommands(store), no options.
cliImport(cs, cmds) == importCommands(cs, cmds, FALSE)

CliAdd ==
  /\ storeOp = "none"
  /\ Len(file) < MaxCliStored
  /\ \E commandId \in CliIds \cup {Undefined}, as \in CliArgLists,
          now \in Times :
       /\ Settle("add", cliAdd(file, commandId, as, now))
       /\ targetId' = commandId
       /\ text' = JoinArgs(as)
  /\ UNCHANGED <<updates, importStore, overwrite>>
  /\ UNCHANGED besideStore

CliEdit ==
  /\ storeOp = "none"
  /\ \E commandId \in CliIds \cup {Undefined}, as \in CliArgLists,
          now \in Times :
       /\ Settle("edit", cliEdit(file, commandId, as, now))
       /\ targetId' = commandId
       /\ text' = JoinArgs(as)
  /\ UNCHANGED <<updates, importStore, overwrite>>
  /\ UNCHANGED besideStore

CliImport ==
  /\ storeOp = "none"
  /\ \E cmds \in ImportFiles :
       /\ Len(file) + Len(cmds) <= MaxCliStored
       /\ Settle("import", cliImport(file, cmds))
       /\ importStore' = cmds
  /\ UNCHANGED <<targetId, text, updates, overwrite>>
  /\ UNCHANGED besideStore

NextCli ==
  \/ CliAdd
  \/ CliEdit
  \/ CliImport
  \/ StoreReturn

SpecCli == InitStore /\ [][NextCli]_vars

(* C21: after any sequence of add, edit and import, every id of the         *)
(* persisted store is accepted by validateId and every command text by      *)
(* validateCommand.                                                         *)
C21_StoredRecordsAreValid ==
  \A i \in 1..Len(file) :
    validateId(file[i].id).valid /\ validateCommand(file[i].command).valid

(* ------------------------------- storage/store.ts: two calls that overlap *)

CallIds == {1, 2}
Pids == {1, 2}
InodeIds == {1, 2, 3}

\* The commands file before the calls, and the calls: recordUsage,
\* toggleFavorite and deleteCommand of the stored id, addCommand of another.
AsyncStart ==
  << [id |-> <<"a">>, command |-> <<"x">>, favorite |-> FALSE,
      usageCount |-> 0, createdAt |-> 1, updatedAt |-> 1,
      lastUsed |-> NoTime] >>

AsyncOps ==
  { [op |-> "recordUsage", id |-> <<"a">>],
    [op |-> "toggleFavorite", id |-> <<"a">>],
    [op |-> "deleteCommand", id |-> <<"a">>],
    [op |-> "addCommand", id |-> <<"b", "0">>] }

\* The length of JSON.stringify(store, null, 2), up to what is the same for
\* every record: false is one character longer than true.
RECURSIVE Size(_)
Size(cs) ==
  IF cs = <<>> THEN 0
  ELSE Len(Head(cs).id) + Len(Head(cs).command)
         + (IF Head(cs).favorite THEN 4 ELSE 5) + 1 + Size(Tail(cs))

NoContent == [kind |-> "none", commands |-> <<>>, size |-> 0]
Truncated == [kind |-> "empty", commands |-> <<>>, size |-> 0]
Complete(cs) == [kind |-> "store", commands |-> cs, size |-> Size(cs)]

\* A write of the whole text of cs at offset 0 of a file: what is longer
\* than the text stays behind it.
Overlay(cs, old) ==
  IF Size(cs) >= old.size THEN Complete(cs)
  ELSE [kind |-> "garbled", commands |-> <<>>, size |-> old.size]

\* loadStore(): the empty store when the file is missing, and (after a
\* backup) when JSON.parse throws or the content is no store.
LoadStore(content) ==
  IF content.kind = "store" THEN content.commands ELSE <<>>

\* What the commands file holds, as loadStore() reads it.
FileCommands == LoadStore(inodes[fileInode])

\* The function of call c applied to what loadStore() returned.
Mutation(r, cs) ==
  IF r.op = "recordUsage" THEN recordUsage(cs, r.id, r.now)
  ELSE IF r.op = "addCommand" THEN addCommand(cs, r.id, <<"x">>, r.now)
  ELSE IF r.op = "deleteCommand" THEN deleteCommand(cs, r.id)
  ELSE updateCommand(cs, r.id, "favorite" :> r.fav, r.now)

besideAsync == <<placeholderVars, searchVars, runVars, validationVars,
    storeVars,
    navVars,
    tuiVars,
    argVars>>

InitAsync ==
  /\ start = AsyncStart
  /\ inodes = [i \in InodeIds |-> IF i = 1 THEN Complete(AsyncStart) ELSE NoContent]
  /\ fileInode = 1
  /\ tempInode = [p \in Pids |-> NoInode]
  /\ \E o1 \in AsyncOps, o2 \in AsyncOps, p2 \in Pids :
       running =
         [c \in CallIds |->
            LET o == IF c = 1 THEN o1 ELSE o2
            IN  [op |-> o.op, id |-> o.id, pid |-> IF c = 1 THEN 1 ELSE p2,
                 pc |-> IF o.op = "toggleFavorite" THEN "get" ELSE "load",
                 fav |-> FALSE, store |-> <<>>, fd |-> NoInode,
                 threw |-> "none", now |-> 2]]
  /\ PlaceholdersIdle /\ SearchIdle /\ RunIdle /\ ValidationIdle /\ StoreIdle /\ NavIdle /\ TuiIdle /\ ArgIdle

\* toggleFavorite: const command = await getCommand(id)
GetCommand(c) ==
  /\ running[c].pc = "get"
  /\ LET index == FindIndex(FileCommands, running[c].id)
     IN  running' =
           IF index = 0
           THEN [running EXCEPT ![c].pc = "settled", ![c].threw = "not found"]
           ELSE [running EXCEPT ![c].pc = "load",
                                ![c].fav = ~FileCommands[index].favorite]
  /\ UNCHANGED <<inodes, fileInode, tempInode, start>>
  /\ UNCHANGED besideAsync

\* const store = await loadStore(), and the function up to saveStore(store).
LoadAndMutate(c) ==
  /\ running[c].pc = "load"
  /\ LET out == Mutation(running[c], FileCommands)
     IN  running' =
           IF out.saved
           THEN [running EXCEPT ![c].pc = "open", ![c].store = out.commands]
           ELSE [running EXCEPT ![c].pc = "settled", ![c].threw = out.threw]
  /\ UNCHANGED <<inodes, fileInode, tempInode, start>>
  /\ UNCHANGED besideAsync

\* writeFile(tempPath, ...) opens the temp file, creating or truncating it.
OpenTemp(c) ==
  /\ running[c].pc = "open"
  /\ LET p == running[c].pid
         i == IF tempInode[p] = NoInode THEN c + 1 ELSE tempInode[p]
     IN  /\ tempInode' = [tempInode EXCEPT ![p] = i]
         /\ inodes' = [inodes EXCEPT ![i] = Truncated]
         /\ running' = [running EXCEPT ![c].pc = "write", ![c].fd = i]
  /\ UNCHANGED <<fileInode, start>>
  /\ UNCHANGED besideAsync

\* writeFile writes the text to the file it opened.
WriteTemp(c) ==
  /\ running[c].pc = "write"
  /\ LET i == running[c].fd
     IN  inodes' = [inodes EXCEPT ![i] = Overlay(running[c].store, inodes[i])]
  /\ running' = [running EXCEPT ![c].pc = "rename"]
  /\ UNCHANGED <<fileInode, tempInode, start>>
  /\ UNCHANGED besideAsync

\* writeFile rejects: catch, unlink(tempPath), throw error.
WriteFails(c) ==
  /\ running[c].pc = "write"
  /\ tempInode' = [tempInode EXCEPT ![running[c].pid] = NoInode]
  /\ running' = [running EXCEPT ![c].pc = "settled", ![c].threw = "writeFile"]
  /\ UNCHANGED <<inodes, fileInode, start>>
  /\ UNCHANGED besideAsync

\* rename(tempPath, filePath); without a temp file it rejects with ENOENT,
\* and so does the unlink in the catch.
Rename(c) ==
  /\ running[c].pc = "rename"
  /\ LET p == running[c].pid
     IN  IF tempInode[p] = NoInode
         THEN /\ running' = [running EXCEPT ![c].pc = "settled",
                                            ![c].threw = "rename"]
              /\ UNCHANGED <<fileInode, tempInode>>
         ELSE /\ fileInode' = tempInode[p]
              /\ tempInode' = [tempInode EXCEPT ![p] = NoInode]
              /\ running' = [running EXCEPT ![c].pc = "settled"]
  /\ UNCHANGED <<inodes, start>>
  /\ UNCHANGED besideAsync

\* rename rejects for another reason: catch, unlink(tempPath), throw error.
RenameFails(c) ==
  /\ running[c].pc = "rename"
  /\ tempInode[running[c].pid] # NoInode
  /\ tempInode' = [tempInode EXCEPT ![running[c].pid] = NoInode]
  /\ running' = [running EXCEPT ![c].pc = "settled", ![c].threw = "rename"]
  /\ UNCHANGED <<inodes, fileInode, start>>
  /\ UNCHANGED besideAsync

NextAsync ==
  \E c \in CallIds :
    \/ GetCommand(c)
    \/ LoadAndMutate(c)
    \/ OpenTemp(c)
    \/ WriteTemp(c)
    \/ WriteFails(c)
    \/ Rename(c)
    \/ RenameFails(c)

SpecAsync == InitAsync /\ [][NextAsync]_vars

\* The function of a call run alone, from its load to its save.
Alone(r, cs) ==
  LET out == IF r.op = "toggleFavorite" THEN toggleFavorite(cs, r.id, r.now)
             ELSE Mutation(r, cs)
  IN  IF out.saved THEN out.commands ELSE cs

SaveThrew(c) == running[c].threw \in {"writeFile", "rename"}

(* C22: when two store mutations overlap and both run to their end with no  *)
(* save failing, the persisted store is what the two give one after the     *)
(* other, in one order or the other: no update is lost.                     *)
C22_NoLostUpdate ==
  (\A c \in CallIds : running[c].pc = "settled" /\ ~SaveThrew(c)) =>
    \/ FileCommands = Alone(running[2], Alone(running[1], start))
    \/ FileCommands = Alone(running[1], Alone(running[2], start))

(* C25: the commands file always holds a complete store, the previous one   *)
(* or the one of a save that succeeded; a save that threw has removed its   *)
(* temp file and left the file to the previous store or to the store of a   *)
(* save that did not throw.                                                 *)
C25_SaveIsAtomic ==
  /\ inodes[fileInode].kind = "store"
  /\ \A c \in CallIds :
       SaveThrew(c) =>
         /\ tempInode[running[c].pid] = NoInode
         /\ \/ FileCommands = start
            \/ \E o \in CallIds \ {c} :
                 /\ running[o].pc = "settled" /\ running[o].threw = "none"
                 /\ FileCommands = running[o].store

(* ------------------------------------------ tui/hooks.ts: useListNavigation *)

MaxItems == 4

\* The lists the hook is rendered with; only their length matters to it.
ItemLists == {[i \in 1..n |-> i] : n \in 0..MaxItems}

MathMax(a, b) == IF a >= b THEN a ELSE b

\* useEffect: "Reset selection when items change"; it runs after every
\* render in which items.length or selectedIndex changed.
ResetSelection(index, length) ==
  IF index >= length THEN MathMax(0, length - 1) ELSE index

\* The updaters moveUp, moveDown and setIndex give to setSelectedIndex.
moveUp(prev, length, w) ==
  IF prev <= 0 THEN (IF w THEN length - 1 ELSE 0) ELSE prev - 1

moveDown(prev, length, w) ==
  IF prev >= length - 1 THEN (IF w THEN 0 ELSE length - 1) ELSE prev + 1

setIndex(prev, length, index) ==
  IF index >= 0 /\ index < length THEN index ELSE prev

\* const selectedItem = items[selectedIndex] is not undefined.
SelectedItemDefined == selectedIndex + 1 \in DOMAIN items

besideNav == <<placeholderVars, searchVars, runVars, validationVars,
    storeVars, asyncVars, tuiVars, argVars>>

\* The first render and its effect: useState(options?.initialIndex ?? 0).
InitNav ==
  /\ items \in ItemLists
  /\ wrap \in BOOLEAN
  /\ selectedIndex = ResetSelection(0, Len(items))
  /\ navOp = "none"
  /\ PlaceholdersIdle /\ SearchIdle /\ RunIdle /\ ValidationIdle /\ StoreIdle
  /\ AsyncIdle /\ TuiIdle /\ ArgIdle

MoveUp ==
  /\ selectedIndex' =
       ResetSelection(moveUp(selectedIndex, Len(items), wrap), Len(items))
  /\ navOp' = "moveUp"
  /\ UNCHANGED <<items, wrap>>
  /\ UNCHANGED besideNav

MoveDown ==
  /\ selectedIndex' =
       ResetSelection(moveDown(selectedIndex, Len(items), wrap), Len(items))
  /\ navOp' = "moveDown"
  /\ UNCHANGED <<items, wrap>>
  /\ UNCHANGED besideNav

SetIndex ==
  /\ \E index \in -1..MaxItems :
       selectedIndex' =
         ResetSelection(setIndex(selectedIndex, Len(items), index), Len(items))
  /\ navOp' = "setIndex"
  /\ UNCHANGED <<items, wrap>>
  /\ UNCHANGED besideNav

\* The component renders with another list.
ItemsChange ==
  /\ \E next \in ItemLists \ {items} :
       /\ items' = next
       /\ selectedIndex' = ResetSelection(selectedIndex, Len(next))
  /\ navOp' = "items"
  /\ UNCHANGED wrap
  /\ UNCHANGED besideNav

NextNav ==
  \/ MoveUp
  \/ MoveDown
  \/ SetIndex
  \/ ItemsChange

SpecNav == InitNav /\ [][NextNav]_vars

(* C28: after any sequence of moveUp, moveDown, setIndex and changes of the *)
(* item list, selectedIndex is not negative and is at most                  *)
(* max(0, items.length - 1), and selectedItem is defined whenever the list  *)
(* is not empty.                                                            *)
C28_SelectionInRange ==
  /\ selectedIndex >= 0
  /\ selectedIndex <= MathMax(0, Len(items) - 1)
  /\ items # <<>> => SelectedItemDefined

(* ------------------------------------------------- tui/App.tsx: the views *)

MaxInFlight == 2

\* The commands the list can have selected, by whether parsePlaceholders
\* finds a placeholder in them.
TuiCommands ==
  {[id |-> "p", placeholders |-> TRUE], [id |-> "q", placeholders |-> FALSE]}

InFlight ==
  inflight["handleAdd"] + inflight["handleEdit"] + inflight["handleDelete"]
    + inflight["handleExecute"] + inflight["handlePlaceholderSubmit"]

\* Keyboard handler, view "list": n, e and d.
KeyN(a) == [a EXCEPT !.view = "add"]
KeyE(a, selectedCommand) ==
  [a EXCEPT !.editingCommand = selectedCommand, !.view = "edit"]
KeyD(a, selectedCommand) ==
  [a EXCEPT !.deletingCommand = selectedCommand, !.view = "delete"]

\* handleExecute(command) up to its first await: the placeholder dialog
\* opens when the command has placeholders.
handleExecute(a, selectedCommand) ==
  IF selectedCommand.placeholders
  THEN [a EXCEPT !.executingCommand = selectedCommand, !.view = "placeholder"]
  ELSE a

\* Keyboard handler, view !== "list", key escape; the onCancel of the open
\* dialog, which the same key calls, sets a part of the same values.
KeyEscape(a) ==
  [a EXCEPT !.view = "list", !.editingCommand = NoCommand,
            !.deletingCommand = NoCommand, !.executingCommand = NoCommand]

\* onCancel of the DeleteDialog.
DeleteCancelled(a) == [a EXCEPT !.view = "list", !.deletingCommand = NoCommand]

\* A submission that clears executingCommand and leaves the view.
PlaceholderSubmittedKeepingView(a) == [a EXCEPT !.executingCommand = NoCommand]

\* What each handler sets after its awaits, when nothing threw.
PlaceholderSubmitted(a) ==
  [a EXCEPT !.executingCommand = NoCommand, !.view = "list"]

HandlerSettled(h, a) ==
  IF h = "handleAdd" THEN [a EXCEPT !.view = "list"]
  ELSE IF h = "handleEdit"
  THEN [a EXCEPT !.view = "list", !.editingCommand = NoCommand]
  ELSE IF h = "handleDelete"
  THEN [a EXCEPT !.view = "list", !.deletingCommand = NoCommand]
  ELSE IF h = "handlePlaceholderSubmit" THEN PlaceholderSubmitted(a)
  ELSE a

besideTui == <<placeholderVars, searchVars, runVars, validationVars,
    storeVars, asyncVars, navVars, argVars>>

InitTui ==
  /\ TuiIdle
  /\ PlaceholdersIdle /\ SearchIdle /\ RunIdle /\ ValidationIdle /\ StoreIdle
  /\ AsyncIdle /\ NavIdle /\ ArgIdle

Starts(h) ==
  /\ InFlight < MaxInFlight
  /\ inflight' = [inflight EXCEPT ![h] = @ + 1]

PressN ==
  /\ ~exited /\ app.view = "list" /\ ~searchFocused
  /\ app' = KeyN(app)
  /\ tuiOp' = "n"
  /\ UNCHANGED <<searchFocused, inflight, exited>>
  /\ UNCHANGED besideTui

PressE ==
  /\ ~exited /\ app.view = "list" /\ ~searchFocused
  /\ \E selectedCommand \in TuiCommands : app' = KeyE(app, selectedCommand)
  /\ tuiOp' = "e"
  /\ UNCHANGED <<searchFocused, inflight, exited>>
  /\ UNCHANGED besideTui

PressD ==
  /\ ~exited /\ app.view = "list" /\ ~searchFocused
  /\ \E selectedCommand \in TuiCommands : app' = KeyD(app, selectedCommand)
  /\ tuiOp' = "d"
  /\ UNCHANGED <<searchFocused, inflight, exited>>
  /\ UNCHANGED besideTui

\* return with a selected command, search focused or not.
PressReturn ==
  /\ ~exited /\ app.view = "list"
  /\ \E selectedCommand \in TuiCommands :
       /\ app' = handleExecute(app, selectedCommand)
       /\ IF selectedCommand.placeholders THEN UNCHANGED inflight
          ELSE Starts("handleExecute")
  /\ searchFocused' = FALSE
  /\ tuiOp' = "return"
  /\ UNCHANGED exited
  /\ UNCHANGED besideTui

PressSlash ==
  /\ ~exited /\ app.view = "list" /\ ~searchFocused
  /\ searchFocused' = TRUE
  /\ tuiOp' = "/"
  /\ UNCHANGED <<app, inflight, exited>>
  /\ UNCHANGED besideTui

PressEscape ==
  /\ ~exited
  /\ IF app.view # "list"
     THEN /\ app' = KeyEscape(app)
          /\ tuiOp' = "escape in a dialog"
          /\ UNCHANGED <<searchFocused, exited>>
     ELSE IF searchFocused
     THEN /\ searchFocused' = FALSE
          /\ tuiOp' = "escape in the search"
          /\ UNCHANGED <<app, exited>>
     ELSE /\ exited' = TRUE
          /\ tuiOp' = "escape in the list"
          /\ UNCHANGED <<app, searchFocused>>
  /\ UNCHANGED inflight
  /\ UNCHANGED besideTui

\* Ctrl+C in any view.
PressCtrlC ==
  /\ ~exited
  /\ exited' = TRUE
  /\ tuiOp' = "ctrl+c"
  /\ UNCHANGED <<app, searchFocused, inflight>>
  /\ UNCHANGED besideTui

\* Ctrl+Enter in the add form: handleAdd awaits addCommand when validateId
\* and validateCommand accept what was typed.
SubmitAdd ==
  /\ ~exited /\ app.view = "add"
  /\ \E valid \in BOOLEAN :
       IF valid THEN Starts("handleAdd") ELSE UNCHANGED inflight
  /\ tuiOp' = "submit add"
  /\ UNCHANGED <<app, searchFocused, exited>>
  /\ UNCHANGED besideTui

\* The edit form is rendered when view === "edit" && editingCommand.
SubmitEdit ==
  /\ ~exited /\ app.view = "edit" /\ app.editingCommand # NoCommand
  /\ \E valid \in BOOLEAN :
       IF valid THEN Starts("handleEdit") ELSE UNCHANGED inflight
  /\ tuiOp' = "submit edit"
  /\ UNCHANGED <<app, searchFocused, exited>>
  /\ UNCHANGED besideTui

\* y or return in the DeleteDialog.
ConfirmDelete ==
  /\ ~exited /\ app.view = "delete" /\ app.deletingCommand # NoCommand
  /\ Starts("handleDelete")
  /\ tuiOp' = "confirm delete"
  /\ UNCHANGED <<app, searchFocused, exited>>
  /\ UNCHANGED besideTui

\* n in the DeleteDialog.
CancelDelete ==
  /\ ~exited /\ app.view = "delete" /\ app.deletingCommand # NoCommand
  /\ app' = DeleteCancelled(app)
  /\ tuiOp' = "cancel delete"
  /\ UNCHANGED <<searchFocused, inflight, exited>>
  /\ UNCHANGED besideTui

\* handlePlaceholderSubmit up to its await.
SubmitPlaceholder ==
  /\ ~exited /\ app.view = "placeholder" /\ app.executingCommand # NoCommand
  /\ \E valid \in BOOLEAN :
       IF valid THEN Starts("handlePlaceholderSubmit") ELSE UNCHANGED inflight
  /\ tuiOp' = "submit placeholder"
  /\ UNCHANGED <<app, searchFocused, exited>>
  /\ UNCHANGED besideTui

\* The awaited store call of a handler resolves and the handler runs to its
\* end; handleExecute ends in handleExit.
HandlerSettles ==
  /\ \E h \in Handlers :
       /\ inflight[h] > 0
       /\ inflight' = [inflight EXCEPT ![h] = @ - 1]
       /\ app' = HandlerSettled(h, app)
       /\ exited' = (exited \/ h \in {"handleExecute", "handlePlaceholderSubmit"})
       /\ tuiOp' = h
  /\ UNCHANGED searchFocused
  /\ UNCHANGED besideTui

\* The awaited store call rejects: the handler's catch shows a status line.
HandlerThrows ==
  /\ \E h \in Handlers :
       /\ inflight[h] > 0
       /\ inflight' = [inflight EXCEPT ![h] = @ - 1]
  /\ tuiOp' = "catch"
  /\ UNCHANGED <<app, searchFocused, exited>>
  /\ UNCHANGED besideTui

NextTui ==
  \/ PressN
  \/ PressE
  \/ PressD
  \/ PressReturn
  \/ PressSlash
  \/ PressEscape
  \/ PressCtrlC
  \/ SubmitAdd
  \/ SubmitEdit
  \/ ConfirmDelete
  \/ CancelDelete
  \/ SubmitPlaceholder
  \/ HandlerSettles
  \/ HandlerThrows

SpecTui == InitTui /\ [][NextTui]_vars

(* C29: in every reachable state of the TUI, whatever the order of key      *)
(* events and completions of the add, edit, delete and execute handlers,    *)
(* view = 'edit' implies editingCommand is set, view = 'delete' implies     *)
(* deletingCommand is set and view = 'placeholder' implies executingCommand *)
(* is set; and Escape pressed in a view other than the list leaves          *)
(* view = 'list' with the three commands null.                              *)
C29_ViewHasItsCommand ==
  /\ app.view = "edit" => app.editingCommand # NoCommand
  /\ app.view = "delete" => app.deletingCommand # NoCommand
  /\ app.view = "placeholder" => app.executingCommand # NoCommand
  /\ tuiOp = "escape in a dialog" => app = AppStart

\* handleEdit finished while the delete dialog was open: the view went back
\* to the list and deletingCommand is still set.
C29_Witness ==
  /\ tuiOp = "handleEdit"
  /\ app.view = "list"
  /\ app.deletingCommand # NoCommand
  /\ app.editingCommand = NoCommand

(* ------------------------------------------------- utils/args.ts: parseArgs *)

MaxArgv == 3

SUBCOMMANDS ==
  { <<"a", "d", "d">>,
    <<"e", "d", "i", "t">>,
    <<"d", "e", "l", "e", "t", "e">>,
    <<"r", "m">>,
    <<"l", "i", "s", "t">>,
    <<"l", "s">>,
    <<"s", "e", "a", "r", "c", "h">>,
    <<"f", "a", "v">>,
    <<"f", "a", "v", "o", "r", "i", "t", "e">>,
    <<"f", "a", "v", "o", "r", "i", "t", "e", "s">>,
    <<"f", "a", "v", "s">>,
    <<"i", "n", "f", "o">>,
    <<"e", "x", "p", "o", "r", "t">>,
    <<"i", "m", "p", "o", "r", "t">>,
    <<"s", "e", "t", "u", "p">>,
    <<"i", "n", "i", "t">>,
    <<"r", "u", "n">> }

\* What a user can type after `comma`: ids, subcommands, flags, an output
\* format, and the empty string.
ArgWords ==
  { <<"a">>, <<"b", "-", "1">>, <<"r", "u", "n">>, <<"l", "s">>,
    <<"h", "e", "l", "p">>, <<"j", "s", "o", "n">>,
    <<"-", "h">>, <<"-", "o">>, <<"-", "-", "e", "x", "e", "c">>,
    <<"-", "o", "=", "x">>, <<>> }

Argvs == SeqsUpTo(ArgWords, MaxArgv)

StartsWith(s, prefix) ==
  Len(s) >= Len(prefix) /\ SubSeq(s, 1, Len(prefix)) = prefix

OutputFormats == {<<"j", "s", "o", "n">>, <<"t", "a", "b", "l", "e">>}

\* arg.split("=")[1]
AfterEquals(s) ==
  LET eq == Min({k \in 1..Len(s) : s[k] = "="})
      rest == SubSeq(s, eq + 1, Len(s))
      stop == {k \in 1..Len(rest) : rest[k] = "="}
  IN  IF stop = {} THEN rest ELSE SubSeq(rest, 1, Min(stop) - 1)

\* A first positional argument of one character counts as a subcommand too.
IsSubcommandOrShort(firstArg) == firstArg \in SUBCOMMANDS \/ Len(firstArg) = 1

\* SUBCOMMANDS.has(firstArg)
IsSubcommand(firstArg) == firstArg \in SUBCOMMANDS

\* The while loop of parseArgs from index i (counted from 1) on.
RECURSIVE ScanArgs(_, _, _, _)
ScanArgs(as, i, flags, positionalArgs) ==
  IF i > Len(as) THEN [flags |-> flags, positionalArgs |-> positionalArgs]
  ELSE LET arg == as[i]
       IN  IF arg \in {<<"-", "-", "h", "e", "l", "p">>, <<"-", "h">>}
           THEN ScanArgs(as, i + 1, [flags EXCEPT !.help = TRUE], positionalArgs)
           ELSE IF arg \in {<<"-", "-", "v", "e", "r", "s", "i", "o", "n">>,
                            <<"-", "v">>}
           THEN ScanArgs(as, i + 1, [flags EXCEPT !.version = TRUE],
                          positionalArgs)
           ELSE IF arg = <<"-", "-", "e", "x", "e", "c">>
           THEN ScanArgs(as, i + 1, [flags EXCEPT !.exec = TRUE], positionalArgs)
           ELSE IF arg \in {<<"-", "-", "r", "a", "w">>, <<"-", "r">>}
           THEN ScanArgs(as, i + 1, [flags EXCEPT !.raw = TRUE], positionalArgs)
           ELSE IF arg = <<"-", "-", "n", "o", "-", "t", "u", "i">>
           THEN ScanArgs(as, i + 1, [flags EXCEPT !.noTui = TRUE],
                          positionalArgs)
           ELSE IF arg \in {<<"-", "-", "o", "u", "t", "p", "u", "t">>,
                            <<"-", "o">>}
           THEN IF i < Len(as) /\ as[i + 1] \in OutputFormats
                THEN ScanArgs(as, i + 2, [flags EXCEPT !.output = as[i + 1]],
                               positionalArgs)
                ELSE ScanArgs(as, i + 1, flags, positionalArgs)
           ELSE IF \/ StartsWith(arg, <<"-", "-", "o", "u", "t", "p", "u", "t", "=">>)
                   \/ StartsWith(arg, <<"-", "o", "=">>)
           THEN ScanArgs(as, i + 1,
                          IF AfterEquals(arg) \in OutputFormats
                          THEN [flags EXCEPT !.output = AfterEquals(arg)]
                          ELSE flags,
                          positionalArgs)
           ELSE ScanArgs(as, i + 1, flags,
                          IF arg # <<>> THEN Append(positionalArgs, arg)
                          ELSE positionalArgs)

\* The end of parseArgs, from `if (positionalArgs.length === 0)` on.
ParseResult(flags, positionalArgs) ==
  IF Len(positionalArgs) = 0 THEN [NoParse EXCEPT !.flags = flags]
  ELSE IF IsSubcommand(positionalArgs[1])
  THEN [subcommand |-> positionalArgs[1],
        commandId |-> IF Len(positionalArgs) >= 2 THEN positionalArgs[2]
                      ELSE Undefined,
        args |-> SubSeq(positionalArgs, 3, Len(positionalArgs)),
        flags |-> flags]
  ELSE [subcommand |-> <<"null">>,
        commandId |-> positionalArgs[1],
        args |-> SubSeq(positionalArgs, 2, Len(positionalArgs)),
        flags |-> flags]

\* parseArgs(argv), given argv.slice(2).
parseArgs(as) ==
  LET scanned == ScanArgs(as, 1, NoFlags, <<>>)
  IN  ParseResult(scanned.flags, scanned.positionalArgs)

besideArgs == <<placeholderVars, searchVars, runVars, validationVars,
    storeVars, asyncVars, navVars, tuiVars>>

InitArgs ==
  /\ ArgIdle
  /\ PlaceholdersIdle /\ SearchIdle /\ RunIdle /\ ValidationIdle /\ StoreIdle
  /\ AsyncIdle /\ NavIdle /\ TuiIdle

\* main: const args = parseArgs(process.argv)
CallParseArgs ==
  /\ parsed = NoParse /\ argv = <<>>
  /\ \E as \in Argvs \ {<<>>} :
       /\ argv' = as
       /\ parsed' = parseArgs(as)
  /\ UNCHANGED besideArgs

\* The process ends.
ArgsExit ==
  /\ argv # <<>>
  /\ argv' = <<>>
  /\ parsed' = NoParse
  /\ UNCHANGED besideArgs

NextArgs ==
  \/ CallParseArgs
  \/ ArgsExit

SpecArgs == InitArgs /\ [][NextArgs]_vars

\* The word is one of the flags parseArgs knows.
IsFlag(w) ==
  \/ w \in {<<"-", "-", "h", "e", "l", "p">>, <<"-", "h">>,
            <<"-", "-", "v", "e", "r", "s", "i", "o", "n">>, <<"-", "v">>,
            <<"-", "-", "e", "x", "e", "c">>,
            <<"-", "-", "r", "a", "w">>, <<"-", "r">>,
            <<"-", "-", "n", "o", "-", "t", "u", "i">>,
            <<"-", "-", "o", "u", "t", "p", "u", "t">>, <<"-", "o">>}
  \/ StartsWith(w, <<"-", "-", "o", "u", "t", "p", "u", "t", "=">>)
  \/ StartsWith(w, <<"-", "o", "=">>)

\* The positional arguments of a command line: what is neither a flag, nor
\* the format that follows --output or -o, nor empty.
RECURSIVE Positionals(_)
Positionals(as) ==
  IF as = <<>> THEN <<>>
  ELSE IF Head(as) \in {<<"-", "-", "o", "u", "t", "p", "u", "t">>, <<"-", "o">>}
          /\ Len(as) >= 2 /\ as[2] \in OutputFormats
  THEN Positionals(Tail(Tail(as)))
  ELSE IF IsFlag(Head(as)) \/ Head(as) = <<>> THEN Positionals(Tail(as))
  ELSE <<Head(as)>> \o Positionals(Tail(as))

(* C30: every word parseArgs treats as a subcommand is in RESERVED_KEYWORDS, *)
(* and for an argv whose first positional argument is an id validateId      *)
(* accepts, parseArgs returns subcommand = null, commandId = that id and    *)
(* args = the positional arguments after it, in order.                      *)
C30_IdIsNotASubcommand ==
  /\ SUBCOMMANDS \subseteq RESERVED_KEYWORDS
  /\ \A w \in SUBCOMMANDS : ~validateId(w).valid
  /\ argv # <<>> =>
       LET positional == Positionals(argv)
       IN  (positional # <<>> /\ validateId(positional[1]).valid) =>
             /\ parsed.subcommand = <<"null">>
             /\ parsed.commandId = positional[1]
             /\ parsed.args = Tail(positional)

\* The id a was given after a flag, between an empty string and the word
\* run, which is a subcommand only in the first place.
C30_Witness ==
  /\ Len(argv) = 3
  /\ \E i \in 1..2 :
       /\ argv[i] = <<"a">>
       /\ argv[i + 1] = <<"r", "u", "n">>
  /\ parsed.commandId = <<"a">>
  /\ parsed.args = << <<"r", "u", "n">> >>

====
